---- MODULE Spec2Model ----
(***************************************************************************)
(* LearnBuddyAI backend: the spaced-repetition scheduler                   *)
(* (SpacedRepetitionService), the free-tier question quota (UserService),  *)
(* the /api/ask route, and plan gating (PlanService, the auth middleware   *)
(* and the Stripe subscription-deleted / checkout-completed webhooks).     *)
(*                                                                         *)
(* Numbers.  ease_factor is an IEEE-754 double in the code.  It is kept    *)
(* here in hundredths (2.5 is 250), together with the flag ef_low, which   *)
(* is TRUE when the stored double may lie a few ulps below the double      *)
(* nearest to that decimal value (0.1, 0.14, 0.32 ... are not binary       *)
(* fractions, so 2.5 - 0.14 - 0.54 - 0.32 is 1.4999999999999998, not 1.5). *)
(* The flag is an input of every update whose increment is inexact, and    *)
(* Math.round of a product that is a decimal tie (x.5) is an input as well *)
(* unless both factors are exact: every double outcome is covered.         *)
(* Dates are whole days since the start of the run.                        *)
(*                                                                         *)
(* Tokens.  A refresh token is the JWT signed by jsonwebtoken: header,     *)
(* payload {userId, email, plan, type, iat, exp}, signature.  It is named  *)
(* here by its serial number in the sequence issued; tokens are taken to   *)
(* be signed in different seconds, so that no two are the same string.     *)
(* bcryptjs reads the first 72 bytes of its input and no more.  Of a JWT   *)
(* these are the 37 bytes of the HS256 header and its dot, and 35 base64   *)
(* characters of the payload, which encode {"userId":" and the first 15    *)
(* characters of the user's id: bcrypt.hash and bcrypt.compare see of a    *)
(* token nothing but the user it belongs to.                               *)
(***************************************************************************)
EXTENDS Integers, FiniteSets, Sequences, TLC

\* ---------------------------------------------------------------- bounds
MaxReviews == 4
MaxDay == 2
MaxAsks == 6
MaxMonths == 1
MaxPlanOps == 4
MaxTokens == 3
MaxLimit == 2
MaxQuestions == 2

\* ---------------------------------------------------------------- inputs
Users == {"u1", "u2"}
Words == {"w1", "w2"}
Qualities == (0 - 1) .. 6
Plans == {"free", "premium", "education"}

Max(a, b) == IF a >= b THEN a ELSE b
Min(a, b) == IF a <= b THEN a ELSE b

VARIABLES
  now,            \* the current day (new Date())
  users,          \* table users: id -> [plan, daily_questions_used, last_question_date]
  user_progress,  \* table user_progress: user_id -> [words_learned]
  word_history,   \* table word_history: <<user_id, word>> -> row
  lastReview,     \* the last recordReview call: arguments, prior row, result
  allCorrect,     \* history: the rows reviewed with quality >= 3 only
  reviewCalls,    \* history: the recordReview calls made, per <<user_id, word>>
  service,        \* the UserService in use: "db" (SQLite) or "memory" (Map)
  dailyLimit,     \* parseInt(process.env.FREE_DAILY_QUESTIONS || '5', 10)
  lastLimit,      \* the last checkAndUpdateQuestionLimit call and its result
  granted,        \* history: calls answered true today, per free user
  answered,       \* history: answers obtained from POST /api/ask today, per client
  lastAsk,        \* the last POST /api/ask request and its status
  subscriptions,  \* table subscriptions: user_id -> row
  accessTokens,   \* the unexpired access tokens of each user, by their plan claim
  lastPlan,       \* the last PlanService call or premium-route request
  planOps,        \* the number of PlanService and StripeService calls so far
  issued,         \* the refresh tokens signed so far: serial -> [userId, iat]
  refresh_tokens, \* table refresh_tokens: id -> [user_id, token_hash, expires_at, revoked]
  loggedOut,      \* history: the tokens for which logout returned true
  loggedOutAll,   \* history: the tokens issued before a logoutAllDevices of their user
  lastAuth,       \* the last refreshTokens / logout call and its result
  registering,    \* the registerUser calls in progress: new id -> position and locals
  lastRegister,   \* the last registration that returned or threw
  reminder_settings, \* table reminder_settings: user_id -> [enabled, last_reminder_sent]
  sentCallDay,    \* history: the day of each user's last recordReminderSent call
  sentRowDay,     \* history: the same, counting only calls that found a settings row
  lastReminder,   \* the last getUsersForReminder call and its result
  lastDue,        \* the last getWordsToReview call and its result
  lastAnalytics,  \* the last AnalyticsService call and its result
  refreshing,     \* the refreshTokens calls in progress: call -> position and locals
  refreshed,      \* history: the refreshTokens calls that returned a token pair
  lastStart,      \* the last POST /api/review/start request and its response
  activity,       \* table user_progress, columns streak and last_active_date, once written
  lastStreak,     \* the last updateStreak call and the value it returned
  quizCache,      \* the Map quizCache: cache key -> questions
  quizRequests,   \* the GET /api/quiz/:topic requests in progress: call -> position, key
  served,         \* history: the <<quizId, questions>> sent to clients
  lastQuiz        \* the last POST /api/quiz/submit request and its response

vars == <<now, users, user_progress, word_history, lastReview, allCorrect,
          reviewCalls,
          service, dailyLimit, lastLimit, granted, answered, lastAsk,
          subscriptions, accessTokens, lastPlan, planOps,
          issued, refresh_tokens, loggedOut, loggedOutAll, lastAuth,
          registering, lastRegister,
          reminder_settings, sentCallDay, sentRowDay, lastReminder, lastDue,
          lastAnalytics, refreshing, refreshed, lastStart, activity, lastStreak,
          quizCache, quizRequests, served, lastQuiz>>

remVars == <<reminder_settings, sentCallDay, sentRowDay, lastReminder, lastDue>>
refreshVars == <<refreshing, refreshed>>
quizVars == <<quizCache, quizRequests, served, lastQuiz>>
streakVars == <<activity, lastStreak>>
otherVars == <<lastAnalytics, refreshVars, lastStart, streakVars, quizVars>>

regVars == <<registering, lastRegister>>

authVars == <<issued, refresh_tokens, loggedOut, loggedOutAll, lastAuth>>
askVars == <<answered, lastAsk>>
planVars == <<subscriptions, accessTokens, lastPlan, planOps>>

srVars == <<user_progress, word_history, lastReview, allCorrect, reviewCalls>>
limitVars == <<service, dailyLimit, lastLimit, granted>>

\* last_question_date of a user who never asked (NULL)
NoDate == 0 - 1

\* ------------------------------------------------ SpacedRepetitionService

\* variant: the quality is used as given
UnclampedQuality(quality) == quality

\* Math.max(0, Math.min(5, quality))
ClampQuality(quality) == Max(0, Min(5, quality))

\* variant: the quadratic term is left out
LinearEaseDelta(q) == 10 - (5 - q) * 8

\* 0.1 - (5 - q) * (0.08 + (5 - q) * 0.02), in hundredths
EaseDelta(q) == 10 - (5 - q) * (8 + (5 - q) * 2)

\* variant: no lower limit on the ease factor
UnflooredEase(easeFactor) == easeFactor

\* Math.max(1.3, easeFactor), in hundredths
FloorEase(easeFactor) == Max(130, easeFactor)

\* variant: only quality 4 and 5 count as correct
IsCorrectAboveThree(clampedQuality) == clampedQuality > 3

\* clampedQuality >= 3: the answer counts as correct
IsCorrect(clampedQuality) == clampedQuality >= 3

\* the product interval * easeFactor is computed without rounding error
ExactProduct(easeFactor, efLow) == easeFactor % 25 = 0 /\ ~efLow

\* Math.round(interval * easeFactor); tieUp decides an inexact tie
RoundProduct(interval, easeFactor, efLow, tieUp) ==
  LET p == interval * easeFactor
  IN IF p % 100 = 50 /\ ~ExactProduct(easeFactor, efLow) /\ ~tieUp
     THEN p \div 100
     ELSE (p + 50) \div 100

\* the first if-chain of the correct branch; its result is overwritten
IntervalByStoredInterval(existing, tieUp) ==
  IF existing.interval = 1 THEN 1
  ELSE IF existing.interval = 6 THEN 6
  ELSE RoundProduct(existing.interval, existing.ease_factor, existing.ef_low, tieUp)

\* variant: the second correct answer has no six-day step
IntervalWithoutSixDayStep(existing, tieUp) ==
  IF existing.correct_count = 0 THEN 1
  ELSE RoundProduct(existing.interval, existing.ease_factor, existing.ef_low, tieUp)

\* the second if-chain of the correct branch: the interval that is stored
IntervalByCorrectCount(existing, tieUp) ==
  IF existing.correct_count = 0 THEN 1
  ELSE IF existing.correct_count = 1 THEN 6
  ELSE RoundProduct(existing.interval, existing.ease_factor, existing.ef_low, tieUp)

\* variant: an incorrect answer starts the repetitions over (correct_count 0)
UpdatedRowWithReset(existing, quality, low, tieUp) ==
  LET clampedQuality == ClampQuality(quality)
      correct == IsCorrect(clampedQuality)
      interval == IF correct THEN IntervalByCorrectCount(existing, tieUp) ELSE 1
  IN [correct_count   |-> IF correct THEN existing.correct_count + 1 ELSE 0,
      incorrect_count |-> IF correct THEN existing.incorrect_count
                          ELSE existing.incorrect_count + 1,
      last_reviewed   |-> now,
      next_review     |-> now + interval,
      ease_factor     |-> FloorEase(existing.ease_factor + EaseDelta(clampedQuality)),
      ef_low          |-> FALSE,
      interval        |-> interval]

\* the row written by the UPDATE branch of recordReview
UpdatedRow(existing, quality, low, tieUp) ==
  LET clampedQuality == ClampQuality(quality)
      correct == IsCorrect(clampedQuality)
      interval == IF correct THEN IntervalByCorrectCount(existing, tieUp) ELSE 1
      sum == existing.ease_factor + EaseDelta(clampedQuality)
      efLow == IF EaseDelta(clampedQuality) = 0 THEN existing.ef_low
               ELSE IF sum <= 130 THEN FALSE
               ELSE low
  IN [correct_count   |-> IF correct THEN existing.correct_count + 1
                          ELSE existing.correct_count,
      incorrect_count |-> IF correct THEN existing.incorrect_count
                          ELSE existing.incorrect_count + 1,
      last_reviewed   |-> now,
      next_review     |-> now + interval,
      ease_factor     |-> FloorEase(sum),
      ef_low          |-> efLow,
      interval        |-> interval]

\* variant: the ease-factor update is applied to a new word as well
InsertedRowWithEaseUpdate(quality) ==
  LET clampedQuality == ClampQuality(quality)
  IN [correct_count   |-> IF IsCorrect(clampedQuality) THEN 1 ELSE 0,
      incorrect_count |-> IF IsCorrect(clampedQuality) THEN 0 ELSE 1,
      last_reviewed   |-> now,
      next_review     |-> now + 1,
      ease_factor     |-> FloorEase(250 + EaseDelta(clampedQuality)),
      ef_low          |-> FALSE,
      interval        |-> 1]

\* the row written by the INSERT branch of recordReview
InsertedRow(quality) ==
  LET clampedQuality == ClampQuality(quality)
  IN [correct_count   |-> IF IsCorrect(clampedQuality) THEN 1 ELSE 0,
      incorrect_count |-> IF IsCorrect(clampedQuality) THEN 0 ELSE 1,
      last_reviewed   |-> now,
      next_review     |-> now + 1,
      ease_factor     |-> 250,
      ef_low          |-> FALSE,
      interval        |-> 1]

\* the ReviewResult returned for a written row
ReviewResult(word, quality, row) ==
  [word           |-> word,
   isCorrect      |-> IsCorrect(ClampQuality(quality)),
   nextReviewDate |-> row.next_review,
   intervalDays   |-> row.interval,
   easeFactor     |-> row.ease_factor,
   correctCount   |-> row.correct_count,
   incorrectCount |-> row.incorrect_count]

\* placeholder for the prior row of a call that found none
NoRow ==
  [correct_count |-> 0, incorrect_count |-> 0, last_reviewed |-> NoDate,
   next_review |-> NoDate, ease_factor |-> 0, ef_low |-> FALSE, interval |-> 0]

HasRow(userId, word) == <<userId, word>> \in DOMAIN word_history

RECURSIVE SumReviews(_)
SumReviews(keys) ==
  IF keys = {} THEN 0
  ELSE LET k == CHOOSE x \in keys : TRUE
       IN word_history[k].correct_count + word_history[k].incorrect_count
          + SumReviews(keys \ {k})

TotalReviews == SumReviews(DOMAIN word_history)

\* the rounding error of the new ease factor is an input of this update
LowMatters(existing, quality) ==
  /\ EaseDelta(ClampQuality(quality)) # 0
  /\ existing.ease_factor + EaseDelta(ClampQuality(quality)) > 130

\* Math.round is applied to an inexact decimal tie in this update
TieMatters(existing, quality) ==
  /\ IsCorrect(ClampQuality(quality))
  /\ existing.correct_count >= 2
  /\ (existing.interval * existing.ease_factor) % 100 = 50
  /\ ~ExactProduct(existing.ease_factor, existing.ef_low)

\* the recordReview calls made so far for a pair
CallsOf(userId, word) ==
  IF <<userId, word>> \in DOMAIN reviewCalls THEN reviewCalls[<<userId, word>>]
  ELSE 0

\* variant: a new word is not counted
CountNothing(userId) == user_progress

\* UPDATE user_progress SET words_learned = words_learned + 1 WHERE user_id = ?
CountWord(userId) == [user_progress EXCEPT ![userId].words_learned = @ + 1]

\* recordReview(userId, word, quality) for a user with a users row: the
\* tables it writes and the result it returns
WriteReview(userId, word, quality, low, tieUp) ==
  /\ userId \in DOMAIN users
  /\ reviewCalls' = [k \in DOMAIN reviewCalls \cup {<<userId, word>>} |->
                       IF k = <<userId, word>> THEN CallsOf(userId, word) + 1
                       ELSE reviewCalls[k]]
  /\ low => (HasRow(userId, word) /\ LowMatters(word_history[<<userId, word>>], quality))
  /\ tieUp => (HasRow(userId, word) /\ TieMatters(word_history[<<userId, word>>], quality))
  /\ IF HasRow(userId, word)
     THEN LET existing == word_history[<<userId, word>>]
              row == UpdatedRow(existing, quality, low, tieUp)
          IN /\ word_history' = [word_history EXCEPT ![<<userId, word>>] = row]
             /\ user_progress' = user_progress
             /\ lastReview' = [op |-> "recordReview", userId |-> userId,
                               quality |-> quality, low |-> low, tieUp |-> tieUp,
                               existed |-> TRUE, existing |-> existing,
                               rowsBefore |-> Cardinality(DOMAIN word_history),
                               result |-> ReviewResult(word, quality, row)]
             /\ allCorrect' = IF quality >= 3 THEN allCorrect
                              ELSE allCorrect \ {<<userId, word>>}
     ELSE LET row == InsertedRow(quality)
          IN /\ word_history' = word_history @@ (<<userId, word>> :> row)
             /\ user_progress' = CountWord(userId)
             /\ lastReview' = [op |-> "recordReview", userId |-> userId,
                               quality |-> quality, low |-> low, tieUp |-> tieUp,
                               existed |-> FALSE, existing |-> NoRow,
                               rowsBefore |-> Cardinality(DOMAIN word_history),
                               result |-> ReviewResult(word, quality, row)]
             /\ allCorrect' = IF quality >= 3
                              THEN allCorrect \cup {<<userId, word>>}
                              ELSE allCorrect

\* a recordReview call, as made by POST /api/review
Review(userId, word, quality, low, tieUp) ==
  /\ WriteReview(userId, word, quality, low, tieUp)
  /\ UNCHANGED <<now, users, limitVars, askVars, planVars, authVars, regVars,
                 remVars, otherVars>>

\* recordReview, while the run has reviews left
RecordReview(userId, word, quality, low, tieUp) ==
  /\ TotalReviews < MaxReviews
  /\ Review(userId, word, quality, low, tieUp)

\* the address a user registers with when no other is given
EmailOf(userId) == <<userId, "@">>

\* SELECT id FROM users WHERE email = ?
EmailRegistered(email) == \E u \in DOMAIN users : users[u].email = email

\* the row of INSERT INTO users (..., 'free', 0, ...)
NewUser(email) ==
  [email |-> email, plan |-> "free", daily_questions_used |-> 0,
   last_question_date |-> NoDate]

\* the row of INSERT INTO user_progress
NewProgress == [words_learned |-> 0]

\* UserService.register with the user's own address: the users and
\* user_progress rows of a new user
Register(userId) ==
  /\ userId \notin DOMAIN users
  /\ registering[userId].pc = "idle"
  /\ ~EmailRegistered(EmailOf(userId))
  /\ users' = users @@ (userId :> NewUser(EmailOf(userId)))
  /\ user_progress' = user_progress @@ (userId :> NewProgress)
  /\ UNCHANGED <<now, word_history, lastReview, allCorrect, reviewCalls,
                 limitVars, askVars, planVars,
                 authVars, regVars, remVars, otherVars>>

\* variant: the rows are selected by date(last_reviewed) <= date(today)
ReviewedWords(userId) ==
  {w \in Words : HasRow(userId, w) /\ word_history[<<userId, w>>].last_reviewed <= now}

\* the words of a user whose row passes date(next_review) <= date(today)
\* (next_review is never NULL in a row written by recordReview)
DueWords(userId) ==
  {w \in Words : HasRow(userId, w) /\ word_history[<<userId, w>>].next_review <= now}

\* the orders in which rows with equal next_review may come out of
\* ORDER BY next_review ASC
TieOrders ==
  {p \in [1 .. Cardinality(Words) -> Words] : \A w \in Words : \E i \in DOMAIN p : p[i] = w}

\* the place of a word in a tie order
PlaceIn(tieOrder, word) == CHOOSE i \in DOMAIN tieOrder : tieOrder[i] = word

\* variant: ORDER BY next_review DESC
ComesAfter(userId, tieOrder, w, v) ==
  LET a == word_history[<<userId, w>>].next_review
      b == word_history[<<userId, v>>].next_review
  IN a > b \/ (a = b /\ PlaceIn(tieOrder, w) <= PlaceIn(tieOrder, v))

\* w comes before v under ORDER BY next_review ASC
ComesBefore(userId, tieOrder, w, v) ==
  LET a == word_history[<<userId, w>>].next_review
      b == word_history[<<userId, v>>].next_review
  IN a < b \/ (a = b /\ PlaceIn(tieOrder, w) <= PlaceIn(tieOrder, v))

RECURSIVE OrderByNextReview(_, _, _)
OrderByNextReview(userId, tieOrder, words) ==
  IF words = {} THEN <<>>
  ELSE LET first == CHOOSE w \in words :
                      \A v \in words : ComesBefore(userId, tieOrder, w, v)
       IN <<first>> \o OrderByNextReview(userId, tieOrder, words \ {first})

\* LIMIT ? for a limit >= 0
Limit(rows, limit) == SubSeq(rows, 1, Min(limit, Len(rows)))

\* the words.map of getWordsToReview
WordToReview(userId, word) ==
  LET w == word_history[<<userId, word>>]
  IN [word |-> word, correctCount |-> w.correct_count,
      incorrectCount |-> w.incorrect_count, lastReviewed |-> w.last_reviewed,
      nextReview |-> w.next_review, easeFactor |-> w.ease_factor,
      intervalDays |-> w.interval]

\* the value of getWordsToReview(userId, limit)
WordsToReview(userId, limit, tieOrder) ==
  LET rows == Limit(OrderByNextReview(userId, tieOrder, DueWords(userId)), limit)
  IN [i \in DOMAIN rows |-> WordToReview(userId, rows[i])]

\* dueToday of getStats: COUNT(*) ... date(next_review) <= date('now')
DueToday(userId) == Cardinality(DueWords(userId))

\* SpacedRepetitionService.getWordsToReview
GetWordsToReview(userId, limit, tieOrder) ==
  /\ lastDue' = [op |-> "getWordsToReview", userId |-> userId, limit |-> limit,
                 words |-> LET r == WordsToReview(userId, limit, tieOrder)
                           IN [i \in DOMAIN r |-> r[i].word]]
  /\ UNCHANGED <<now, users, srVars, limitVars, askVars, planVars, authVars,
                 regVars, reminder_settings, sentCallDay, sentRowDay, lastReminder, otherVars>>

\* -------------------------------------------------------- ReminderService
\* ReminderService.getSettings: the row of a user, if any
HasSettings(userId) == userId \in DOMAIN reminder_settings

\* ReminderService.updateSettings(userId, updates): updates.enabled is given
\* (hasEnabled) or undefined.  An existing row keeps last_reminder_sent; a new
\* row has enabled DEFAULT 1 and last_reminder_sent NULL.  The INSERT needs
\* the user's row (FOREIGN KEY user_id REFERENCES users).
UpdateSettings(userId, hasEnabled, enabled) ==
  /\ userId \in DOMAIN users
  /\ IF HasSettings(userId)
     THEN reminder_settings' =
            [reminder_settings EXCEPT ![userId].enabled =
               IF hasEnabled THEN enabled ELSE @]
     ELSE reminder_settings' = reminder_settings @@
            (userId :> [enabled |-> IF hasEnabled THEN enabled ELSE TRUE,
                        last_reminder_sent |-> NoDate])
  /\ UNCHANGED <<now, users, srVars, limitVars, askVars, planVars, authVars,
                 regVars, sentCallDay, sentRowDay, lastReminder, lastDue, otherVars>>

\* ReminderService.initializeForUser
InitializeForUser(userId) ==
  /\ ~HasSettings(userId)
  /\ UpdateSettings(userId, FALSE, FALSE)

\* ReminderService.recordReminderSent: UPDATE ... WHERE user_id = ?, which
\* changes nothing when the user has no row
RecordReminderSent(userId) ==
  /\ reminder_settings' =
       IF HasSettings(userId)
       THEN [reminder_settings EXCEPT ![userId].last_reminder_sent = now]
       ELSE reminder_settings
  /\ sentCallDay' = [sentCallDay EXCEPT ![userId] = now]
  /\ sentRowDay' = IF HasSettings(userId)
                   THEN [sentRowDay EXCEPT ![userId] = now]
                   ELSE sentRowDay
  /\ UNCHANGED <<now, users, srVars, limitVars, askVars, planVars, authVars,
                 regVars, lastReminder, lastDue, otherVars>>

\* variant: the date of the last reminder is not looked at
ReminderAlwaysDue(row) == TRUE

\* rs.last_reminder_sent IS NULL OR date(rs.last_reminder_sent) < date(today)
ReminderNotSentToday(row) ==
  row.last_reminder_sent = NoDate \/ row.last_reminder_sent < now

\* the rows of the SELECT of getUsersForReminder
ReminderCandidates ==
  {u \in DOMAIN reminder_settings \cap DOMAIN users :
     /\ reminder_settings[u].enabled
     /\ ReminderNotSentToday(reminder_settings[u])}

\* the value of getUsersForReminder
ReminderTargets(tieOrder) ==
  {[userId |-> u, dueWords |-> DueToday(u)] :
     u \in {c \in ReminderCandidates :
              Len(WordsToReview(c, 1, tieOrder)) > 0 \/ DueToday(c) > 0}}

\* ReminderService.getUsersForReminder
GetUsersForReminder(tieOrder) ==
  /\ lastReminder' = [op |-> "getUsersForReminder", at |-> now,
                      targets |-> ReminderTargets(tieOrder)]
  /\ UNCHANGED <<now, users, srVars, limitVars, askVars, planVars, authVars,
                 regVars, reminder_settings, sentCallDay, sentRowDay, lastDue, otherVars>>

\* -------------------------------------------------------- AnalyticsService
\* SELECT * FROM word_history WHERE user_id = ?
WordsOf(userId) == {key[2] : key \in {k \in DOMAIN word_history : k[1] = userId}}

\* variant: ease_factor <= limit
EaseAtMost(row, limit) == row.ease_factor <= limit

\* ease_factor < limit, for a limit (in hundredths) that is a double
EaseBelow(row, limit) ==
  row.ease_factor < limit \/ (row.ease_factor = limit /\ row.ef_low)

\* total > 0 ? correct_count / total : 0, as a pair <<numerator, denominator>>
CorrectRate(row) ==
  LET total == row.correct_count + row.incorrect_count
  IN IF total > 0 THEN <<row.correct_count, total>> ELSE <<0, 1>>

\* correctRate < percent / 100
RateBelow(rate, percent) == rate[1] * 100 < percent * rate[2]

\* correctRate < 0.6 || word.ease_factor < 2.0
IsWeak(row) == RateBelow(CorrectRate(row), 60) \/ EaseBelow(row, 200)

\* the words pushed to weakWords
WeakWords(userId) == {w \in WordsOf(userId) : IsWeak(word_history[<<userId, w>>])}

\* the weaknessLevel of a number of weak words
WeaknessLevel(count) ==
  IF count = 0 THEN "none"
  ELSE IF count <= 3 THEN "low"
  ELSE IF count <= 7 THEN "medium"
  ELSE "high"

\* the number of weak words returned
WeakWordsShown == 10

\* the length of weakWords.sort(...).slice(0, 10); the sort keeps the length
SortAndSlice(length) == Min(WeakWordsShown, length)

\* the WeaknessReport of detectWeaknesses; of the list weakWords, its length
WeaknessReport(userId) ==
  [weaknessLevel |-> WeaknessLevel(Cardinality(WeakWords(userId))),
   weakWordsCount |-> Cardinality(WeakWords(userId)),
   weakWords |-> SortAndSlice(Cardinality(WeakWords(userId)))]

\* AnalyticsService.detectWeaknesses
DetectWeaknesses(userId) ==
  /\ lastAnalytics' = [op |-> "detectWeaknesses", userId |-> userId,
                       report |-> WeaknessReport(userId)]
  /\ UNCHANGED <<now, users, srVars, limitVars, askVars, planVars, authVars,
                 regVars, remVars, refreshVars, lastStart, streakVars, quizVars>>

\* variant: ease_factor > limit
EaseAbove(row, limit) == row.ease_factor > limit

\* ease_factor >= limit, for a limit (in hundredths) whose double is not below it
EaseAtLeast(row, limit) ==
  row.ease_factor > limit \/ (row.ease_factor = limit /\ ~row.ef_low)

\* word.correct_count >= 5 && word.ease_factor >= 2.5
IsMastered(row) == row.correct_count >= 5 /\ EaseAtLeast(row, 250)

\* the list a word is pushed to by the first if-chain of the loop
MasteryOf(row) ==
  IF IsMastered(row) THEN "mastered"
  ELSE IF row.incorrect_count > row.correct_count THEN "struggling"
  ELSE "learning"

\* the list a word is pushed to by the second if-chain of the loop
DifficultyOf(row) ==
  IF EaseAtLeast(row, 270) THEN "easy"
  ELSE IF EaseAtLeast(row, 200) THEN "medium"
  ELSE "hard"

\* the words of a user pushed to the list of a mastery
WordsByMastery(userId, mastery) ==
  {w \in WordsOf(userId) : MasteryOf(word_history[<<userId, w>>]) = mastery}

\* the words of a user pushed to the list of a difficulty
WordsByDifficulty(userId, difficulty) ==
  {w \in WordsOf(userId) : DifficultyOf(word_history[<<userId, w>>]) = difficulty}

\* the WordPerformanceAnalysis returned when the user has no words
NoWordPerformance ==
  [totalWords |-> 0, masteredCount |-> 0, learningCount |-> 0,
   strugglingCount |-> 0, easy |-> {}, medium |-> {}, hard |-> {}]

\* the WordPerformanceAnalysis of analyzeWordPerformance (the averages left out)
WordPerformance(userId) ==
  IF Cardinality(WordsOf(userId)) = 0 THEN NoWordPerformance
  ELSE [totalWords |-> Cardinality(WordsOf(userId)),
        masteredCount |-> Cardinality(WordsByMastery(userId, "mastered")),
        learningCount |-> Cardinality(WordsByMastery(userId, "learning")),
        strugglingCount |-> Cardinality(WordsByMastery(userId, "struggling")),
        easy |-> WordsByDifficulty(userId, "easy"),
        medium |-> WordsByDifficulty(userId, "medium"),
        hard |-> WordsByDifficulty(userId, "hard")]

\* AnalyticsService.analyzeWordPerformance
AnalyzeWordPerformance(userId) ==
  /\ lastAnalytics' = [op |-> "analyzeWordPerformance", userId |-> userId,
                       report |-> WordPerformance(userId)]
  /\ UNCHANGED <<now, users, srVars, limitVars, askVars, planVars, authVars,
                 regVars, remVars, refreshVars, lastStart, streakVars, quizVars>>

\* ------------------------------------------------ POST /api/review/start
\* the words of content/vocabulary/basic_english.json
Vocabulary == {"w1"}

\* variant: every word is taken to be in the vocabulary
AnyWord(word) == TRUE

\* allVocab.find((v) => v.word === word)
InVocabulary(word) == word \in Vocabulary

\* the quality recorded for a word that is started
StartQuality == 4

\* the response and the effect of a request, for the record
StartCall(userId, word, status) ==
  [op |-> "start", userId |-> userId, word |-> word, status |-> status,
   existed |-> HasRow(userId, word),
   kept |-> word_history' = word_history /\ user_progress' = user_progress,
   rowAfter |-> <<userId, word>> \in DOMAIN word_history']

\* POST /api/review/start for a registered user with a word in the body.
\* getWordHistory, getVocabularyWords (readFileSync) and recordReview do no
\* asynchronous work: each await resumes in the same turn of the event loop,
\* and the handler runs from its first line to its response unbroken.
StartLearning(userId, word) ==
  /\ userId \in DOMAIN users
  /\ IF HasRow(userId, word)
     THEN /\ UNCHANGED <<srVars>>
          /\ lastStart' = StartCall(userId, word, 200)
     ELSE IF ~InVocabulary(word)
     THEN /\ UNCHANGED <<srVars>>
          /\ lastStart' = StartCall(userId, word, 404)
     ELSE /\ TotalReviews < MaxReviews
          /\ WriteReview(userId, word, StartQuality, FALSE, FALSE)
          /\ lastStart' = StartCall(userId, word, 200)
  /\ UNCHANGED <<now, users, limitVars, askVars, planVars, authVars, regVars,
                 remVars, lastAnalytics, refreshVars, quizVars, streakVars>>

\* ------------------------------------------------------------ quiz routes
\* the GET /api/quiz/:topic requests that may be in progress at a time
QuizCalls == {"a", "b"}

\* the cache keys `${topic}-${difficulty}` asked for
QuizKeys == {"k1", "k2"}

\* the indexes of the options of a question
OptionIndexes == {0, 1}

\* the question lists AIService.generateQuiz may return (gpt-4 at temperature
\* 0.8), each question being given by its correctIndex
QuizLists == [1 .. MaxQuestions -> OptionIndexes]

\* the answers arrays submitted
AnswerLists ==
  UNION {[1 .. n -> OptionIndexes] : n \in 0 .. MaxQuestions}

\* GET /api/quiz/:topic up to the response from the cache or to the await of
\* generateQuiz
GetQuiz(call, key) ==
  /\ quizRequests[call].pc = "idle"
  /\ IF key \in DOMAIN quizCache
     THEN /\ served' = served \cup {<<key, quizCache[key]>>}
          /\ quizRequests' = quizRequests
     ELSE /\ served' = served
          /\ quizRequests' = [quizRequests EXCEPT ![call] =
                                [pc |-> "generating", key |-> key]]
  /\ UNCHANGED <<now, users, srVars, limitVars, askVars, planVars, authVars,
                 regVars, remVars, lastAnalytics, refreshVars, lastStart, streakVars,
                 quizCache, lastQuiz>>

\* GET /api/quiz/:topic after the await: quizCache.set and the response
GetQuizGenerated(call, questions) ==
  /\ quizRequests[call].pc = "generating"
  /\ LET key == quizRequests[call].key
     IN /\ quizCache' = [k \in DOMAIN quizCache \cup {key} |->
                           IF k = key THEN questions ELSE quizCache[k]]
        /\ served' = served \cup {<<key, questions>>}
  /\ quizRequests' = [quizRequests EXCEPT ![call] = [pc |-> "idle"]]
  /\ UNCHANGED <<now, users, srVars, limitVars, askVars, planVars, authVars,
                 regVars, remVars, lastAnalytics, refreshVars, lastStart, streakVars,
                 lastQuiz>>

\* answers[index] === q.correctIndex (undefined past the end of answers)
IsRight(answers, index, correctIndex) ==
  index <= Len(answers) /\ answers[index] = correctIndex

\* details.filter((d) => d.correct).length
CorrectCount(questions, answers) ==
  Cardinality({i \in DOMAIN questions : IsRight(answers, i, questions[i])})

\* POST /api/quiz/submit with a quizId and an answers array
SubmitQuiz(quizId, answers) ==
  /\ lastQuiz' =
       IF quizId \in DOMAIN quizCache
       THEN [op |-> "submit", quizId |-> quizId, answers |-> answers,
             status |-> 200, questions |-> quizCache[quizId],
             score |-> CorrectCount(quizCache[quizId], answers),
             total |-> Len(quizCache[quizId])]
       ELSE [op |-> "submit", quizId |-> quizId, answers |-> answers,
             status |-> 404]
  /\ UNCHANGED <<now, users, srVars, limitVars, askVars, planVars, authVars,
                 regVars, remVars, lastAnalytics, refreshVars, lastStart, streakVars,
                 quizCache, quizRequests, served>>

\* ------------------------------------------------------------ UserService

\* FREE_DAILY_QUESTIONS when the environment does not set it
DefaultDailyQuestions == 5

\* values of FREE_DAILY_QUESTIONS: the test's 2, the default, and 0
DailyLimits == {0, 2, DefaultDailyQuestions}

\* variant: the counter of an earlier day is not reset
UsedWithoutReset(user) == user.daily_questions_used

\* dailyUsed after "if (lastDate !== today) dailyUsed = 0"
UsedToday(user) ==
  IF user.last_question_date # now THEN 0 ELSE user.daily_questions_used

\* the ghost count of calls answered true to a free user
CountGranted(userId, result) ==
  IF result /\ userId \in DOMAIN users /\ users[userId].plan = "free"
  THEN [granted EXCEPT ![userId] = @ + 1]
  ELSE granted

LimitCall(userId, result) ==
  [op |-> "check", userId |-> userId, result |-> result,
   known |-> userId \in DOMAIN users,
   before |-> IF userId \in DOMAIN users THEN users[userId]
              ELSE [email |-> "none", plan |-> "none",
                    daily_questions_used |-> 0, last_question_date |-> NoDate],
   grantedBefore |-> granted[userId]]

\* UserService.checkAndUpdateQuestionLimit on the users table
CheckAndUpdateQuestionLimitDb(userId) ==
  /\ service = "db"
  /\ IF userId \notin DOMAIN users
     THEN /\ users' = users
          /\ lastLimit' = LimitCall(userId, FALSE)
          /\ granted' = granted
     ELSE IF users[userId].plan # "free"
     THEN /\ users' = users
          /\ lastLimit' = LimitCall(userId, TRUE)
          /\ granted' = granted
     ELSE LET dailyUsed == UsedToday(users[userId])
          IN IF dailyUsed >= dailyLimit
             THEN /\ users' = users
                  /\ lastLimit' = LimitCall(userId, FALSE)
                  /\ granted' = granted
             ELSE /\ users' = [users EXCEPT
                                ![userId].daily_questions_used = dailyUsed + 1,
                                ![userId].last_question_date = now]
                  /\ lastLimit' = LimitCall(userId, TRUE)
                  /\ granted' = CountGranted(userId, TRUE)
  /\ UNCHANGED <<now, srVars, service, dailyLimit, askVars, planVars,
                 authVars, regVars, remVars, otherVars>>

\* UserService.checkAndUpdateQuestionLimit on the in-memory Map: the user
\* object is reset in place before the limit is tested
CheckAndUpdateQuestionLimitMemory(userId) ==
  /\ service = "memory"
  /\ IF userId \notin DOMAIN users
     THEN /\ users' = users
          /\ lastLimit' = LimitCall(userId, FALSE)
          /\ granted' = granted
     ELSE IF users[userId].plan # "free"
     THEN /\ users' = users
          /\ lastLimit' = LimitCall(userId, TRUE)
          /\ granted' = granted
     ELSE LET user == [users[userId] EXCEPT
                         !.daily_questions_used = UsedToday(users[userId]),
                         !.last_question_date = now]
          IN IF user.daily_questions_used >= dailyLimit
             THEN /\ users' = [users EXCEPT ![userId] = user]
                  /\ lastLimit' = LimitCall(userId, FALSE)
                  /\ granted' = granted
             ELSE /\ users' = [users EXCEPT ![userId] =
                                [user EXCEPT !.daily_questions_used = @ + 1]]
                  /\ lastLimit' = LimitCall(userId, TRUE)
                  /\ granted' = CountGranted(userId, TRUE)
  /\ UNCHANGED <<now, srVars, service, dailyLimit, askVars, planVars,
                 authVars, regVars, remVars, otherVars>>

\* UserService.upgradePlan: sets the plan of an existing user
UserUpgradePlan(userId, newPlan) ==
  /\ userId \in DOMAIN users
  /\ users[userId].plan # newPlan
  /\ users' = [users EXCEPT ![userId].plan = newPlan]
  /\ UNCHANGED <<now, srVars, limitVars, askVars, planVars, authVars, regVars,
                 remVars, otherVars>>

\* a day passes: new Date() moves to the next calendar day
Tick ==
  /\ now < MaxDay
  /\ now' = now + 1
  /\ granted' = [u \in Users |-> 0]
  /\ answered' = [u \in Users |-> 0]
  /\ accessTokens' = [u \in Users |-> {}]
  /\ UNCHANGED <<users, srVars, service, dailyLimit, lastLimit, lastAsk,
                 subscriptions, lastPlan, planOps, authVars, regVars,
                 remVars, otherVars>>

\* ---------------------------------------------------------- POST /api/ask

\* POST /api/ask as mounted by app.use('/api/ask', askRouter): the handler
\* runs for every client, behind no authentication and no rate limit
PostAsk(userId, hasQuestion, aiFails) ==
  /\ answered[userId] < MaxAsks
  /\ IF ~hasQuestion
     THEN /\ lastAsk' = [op |-> "ask", userId |-> userId, status |-> 400]
          /\ answered' = answered
     ELSE IF aiFails
     THEN /\ lastAsk' = [op |-> "ask", userId |-> userId, status |-> 500]
          /\ answered' = answered
     ELSE /\ lastAsk' = [op |-> "ask", userId |-> userId, status |-> 200]
          /\ answered' = [answered EXCEPT ![userId] = @ + 1]
  /\ UNCHANGED <<now, users, srVars, limitVars, planVars, authVars, regVars,
                 remVars, otherVars>>

\* ------------------------------------------------------------ PlanService

\* periodEnd.setMonth(periodEnd.getMonth() + 1), in days
DaysInMonth == 30

\* stripe_subscription_id of a row no checkout has touched (NULL)
NoStripeId == <<>>

\* the Stripe subscription id of a user's checkout session
StripeIdOf(userId) == <<userId, "sub">>

HasSubscription(userId) == userId \in DOMAIN subscriptions

\* the row inserted by createSubscription
NewSubscription(plan) ==
  [plan |-> plan, status |-> "active",
   current_period_end |-> now + DaysInMonth,
   cancel_at_period_end |-> FALSE, stripe_subscription_id |-> NoStripeId]

\* the outcome recorded for a PlanService call
PlanCall(op, userId, newPlan) ==
  [op |-> op, userId |-> userId, newPlan |-> newPlan,
   hadSubscription |-> HasSubscription(userId)]

\* PlanService.createSubscription (user_id is UNIQUE: one row per user)
CreateSubscription(userId, plan) ==
  /\ planOps < MaxPlanOps
  /\ planOps' = planOps + 1
  /\ userId \in DOMAIN users
  /\ ~HasSubscription(userId)
  /\ subscriptions' = subscriptions @@ (userId :> NewSubscription(plan))
  /\ lastPlan' = PlanCall("createSubscription", userId, plan)
  /\ UNCHANGED <<now, users, srVars, limitVars, askVars, accessTokens,
                 authVars, regVars, remVars, otherVars>>

\* PlanService.upgradePlan
UpgradePlan(userId, newPlan) ==
  /\ planOps < MaxPlanOps
  /\ planOps' = planOps + 1
  /\ userId \in DOMAIN users
  /\ IF ~HasSubscription(userId)
     THEN /\ subscriptions' = subscriptions @@ (userId :> NewSubscription(newPlan))
          /\ users' = users
     ELSE /\ subscriptions' = [subscriptions EXCEPT ![userId] =
                               [@ EXCEPT !.plan = newPlan,
                                         !.status = "active",
                                         !.current_period_end = now + DaysInMonth,
                                         !.cancel_at_period_end = FALSE]]
          /\ users' = [users EXCEPT ![userId].plan = newPlan]
  /\ lastPlan' = PlanCall("upgradePlan", userId, newPlan)
  /\ UNCHANGED <<now, srVars, limitVars, askVars, accessTokens, authVars,
                 regVars, remVars, otherVars>>

\* the value of getSubscription for a user without a row (null)
NoSubscription ==
  [plan |-> "none", status |-> "none", current_period_end |-> NoDate,
   cancel_at_period_end |-> FALSE, stripe_subscription_id |-> NoStripeId]

\* PlanService.getSubscription
GetSubscription(table, userId) ==
  IF userId \in DOMAIN table THEN table[userId] ELSE NoSubscription

\* variant: the cancellation flag is written together with a new period
SetCancelAndRenew(row, flag) ==
  [row EXCEPT !.cancel_at_period_end = flag,
              !.current_period_end = now + DaysInMonth]

\* SET cancel_at_period_end = ? of scheduleCancellation / cancelCancellation
SetCancelAtPeriodEnd(row, flag) == [row EXCEPT !.cancel_at_period_end = flag]

\* UPDATE subscriptions SET cancel_at_period_end = ? WHERE user_id = ?
CancellationUpdate(userId, flag) ==
  [u \in DOMAIN subscriptions |->
     IF u = userId THEN SetCancelAtPeriodEnd(subscriptions[u], flag)
     ELSE subscriptions[u]]

\* the outcome recorded for scheduleCancellation / cancelCancellation: the
\* user's row before and after the call, whether the users table and the set
\* of subscribed users stayed as they were, the value returned, and (prior)
\* the row before a scheduleCancellation that this call directly follows
CancellationCall(op, userId, flag) ==
  [op |-> op, userId |-> userId, newPlan |-> "none",
   hadSubscription |-> HasSubscription(userId),
   before |-> GetSubscription(subscriptions, userId),
   after |-> GetSubscription(subscriptions', userId),
   usersKept |-> users' = users,
   ownersKept |-> DOMAIN subscriptions' = DOMAIN subscriptions,
   returned |-> GetSubscription(CancellationUpdate(userId, flag), userId),
   follows |-> /\ op = "cancelCancellation"
               /\ lastPlan.op = "scheduleCancellation"
               /\ lastPlan.userId = userId
               /\ lastPlan.returned = GetSubscription(subscriptions, userId),
   prior |-> IF lastPlan.op = "scheduleCancellation"
             THEN lastPlan.before ELSE NoSubscription]

\* PlanService.scheduleCancellation
ScheduleCancellation(userId) ==
  /\ planOps < MaxPlanOps
  /\ planOps' = planOps + 1
  /\ subscriptions' = CancellationUpdate(userId, TRUE)
  /\ UNCHANGED <<now, users, srVars, limitVars, askVars, accessTokens,
                 authVars, regVars, remVars, otherVars>>
  /\ lastPlan' = CancellationCall("scheduleCancellation", userId, TRUE)

\* PlanService.cancelCancellation
CancelCancellation(userId) ==
  /\ planOps < MaxPlanOps
  /\ planOps' = planOps + 1
  /\ subscriptions' = CancellationUpdate(userId, FALSE)
  /\ UNCHANGED <<now, users, srVars, limitVars, askVars, accessTokens,
                 authVars, regVars, remVars, otherVars>>
  /\ lastPlan' = CancellationCall("cancelCancellation", userId, FALSE)

\* PlanService.cancelImmediately
CancelImmediately(userId) ==
  /\ planOps < MaxPlanOps
  /\ planOps' = planOps + 1
  /\ subscriptions' = [u \in DOMAIN subscriptions |->
                       IF u = userId
                       THEN [subscriptions[u] EXCEPT !.plan = "free",
                                                     !.status = "cancelled",
                                                     !.cancel_at_period_end = FALSE]
                       ELSE subscriptions[u]]
  /\ users' = [u \in DOMAIN users |->
               IF u = userId THEN [users[u] EXCEPT !.plan = "free"] ELSE users[u]]
  /\ lastPlan' = PlanCall("cancelImmediately", userId, "none")
  /\ UNCHANGED <<now, srVars, limitVars, askVars, accessTokens, authVars,
                 regVars, remVars, otherVars>>

\* the rows matched by the UPDATE of processExpiredSubscriptions
Expiring ==
  {u \in DOMAIN subscriptions :
     /\ subscriptions[u].cancel_at_period_end
     /\ subscriptions[u].current_period_end < now
     /\ subscriptions[u].status = "active"}

\* PlanService.processExpiredSubscriptions
ProcessExpiredSubscriptions ==
  LET expired == [u \in DOMAIN subscriptions |->
                  IF u \in Expiring
                  THEN [subscriptions[u] EXCEPT !.plan = "free",
                                                !.status = "expired"]
                  ELSE subscriptions[u]]
  IN /\ planOps < MaxPlanOps
     /\ planOps' = planOps + 1
     /\ subscriptions' = expired
     /\ users' = [u \in DOMAIN users |->
                  IF u \in DOMAIN expired /\ expired[u].status = "expired"
                  THEN [users[u] EXCEPT !.plan = "free"]
                  ELSE users[u]]
     /\ UNCHANGED <<now, srVars, limitVars, askVars, accessTokens, authVars,
                 regVars, remVars, otherVars>>
     /\ lastPlan' = [op |-> "processExpiredSubscriptions",
                     changes |-> Cardinality(Expiring),
                     at |-> now,
                     before |-> subscriptions,
                     after |-> subscriptions',
                     usersAfter |-> users']

\* ---------------------------------------------------------- StripeService

\* StripeService.handleCheckoutCompleted with complete metadata
HandleCheckoutCompleted(userId, plan) ==
  /\ planOps < MaxPlanOps
  /\ planOps' = planOps + 1
  /\ subscriptions' = [u \in DOMAIN subscriptions |->
                       IF u = userId
                       THEN [subscriptions[u] EXCEPT
                               !.plan = plan,
                               !.status = "active",
                               !.stripe_subscription_id = StripeIdOf(userId),
                               !.current_period_end = now + DaysInMonth,
                               !.cancel_at_period_end = FALSE]
                       ELSE subscriptions[u]]
  /\ users' = [u \in DOMAIN users |->
               IF u = userId THEN [users[u] EXCEPT !.plan = plan] ELSE users[u]]
  /\ lastPlan' = PlanCall("handleCheckoutCompleted", userId, plan)
  /\ UNCHANGED <<now, srVars, limitVars, askVars, accessTokens, authVars,
                 regVars, remVars, otherVars>>

\* variant: the users table is left as it is when a subscription is deleted
UsersNotDowngraded(matched) == users

\* UPDATE users SET plan = 'free' WHERE id IN (the owners of the deleted
\* subscription)
UsersDowngraded(matched) ==
  [u \in DOMAIN users |->
     IF u \in matched THEN [users[u] EXCEPT !.plan = "free"] ELSE users[u]]

\* StripeService.handleSubscriptionDeleted
HandleSubscriptionDeleted(subscriptionId) ==
  LET matched == {u \in DOMAIN subscriptions :
                    subscriptions[u].stripe_subscription_id = subscriptionId}
  IN /\ planOps < MaxPlanOps
     /\ planOps' = planOps + 1
     /\ subscriptions' = [u \in DOMAIN subscriptions |->
                          IF u \in matched
                          THEN [subscriptions[u] EXCEPT !.plan = "free",
                                                        !.status = "cancelled"]
                          ELSE subscriptions[u]]
     /\ users' = UsersDowngraded(matched)
     /\ lastPlan' = [op |-> "handleSubscriptionDeleted",
                     changes |-> Cardinality(matched)]
     /\ UNCHANGED <<now, srVars, limitVars, askVars, accessTokens, authVars,
                 regVars, remVars, otherVars>>

\* the rows of a Stripe subscription id (WHERE stripe_subscription_id = ?)
RowsOfStripeId(subscriptionId) ==
  {u \in DOMAIN subscriptions :
     subscriptions[u].stripe_subscription_id = subscriptionId}

\* StripeService.handleInvoicePaymentSucceeded; hasPeriodEnd tells whether
\* the invoice's first line carries a period end, periodEnd is that date
HandleInvoicePaymentSucceeded(subscriptionId, hasPeriodEnd, periodEnd) ==
  /\ planOps < MaxPlanOps
  /\ planOps' = planOps + 1
  /\ subscriptions' =
       IF RowsOfStripeId(subscriptionId) = {} \/ ~hasPeriodEnd
       THEN subscriptions
       ELSE [u \in DOMAIN subscriptions |->
               IF u \in RowsOfStripeId(subscriptionId)
               THEN [subscriptions[u] EXCEPT !.current_period_end = periodEnd,
                                             !.status = "active"]
               ELSE subscriptions[u]]
  /\ lastPlan' = [op |-> "handleInvoicePaymentSucceeded",
                  changes |-> Cardinality(RowsOfStripeId(subscriptionId))]
  /\ UNCHANGED <<now, users, srVars, limitVars, askVars, accessTokens,
                 authVars, regVars, remVars, otherVars>>

\* StripeService.handleInvoicePaymentFailed
HandleInvoicePaymentFailed(subscriptionId) ==
  /\ planOps < MaxPlanOps
  /\ planOps' = planOps + 1
  /\ subscriptions' = [u \in DOMAIN subscriptions |->
                       IF u \in RowsOfStripeId(subscriptionId)
                       THEN [subscriptions[u] EXCEPT !.status = "past_due"]
                       ELSE subscriptions[u]]
  /\ lastPlan' = [op |-> "handleInvoicePaymentFailed",
                  changes |-> Cardinality(RowsOfStripeId(subscriptionId))]
  /\ UNCHANGED <<now, users, srVars, limitVars, askVars, accessTokens,
                 authVars, regVars, remVars, otherVars>>

\* the statuses Stripe reports for a subscription ("trialing" stands for
\* every status the switch sends to its default branch)
StripeStatuses == {"active", "past_due", "canceled", "trialing"}

\* the switch of handleSubscriptionUpdated
DbStatus(status) ==
  IF status = "active" THEN "active"
  ELSE IF status = "past_due" THEN "past_due"
  ELSE IF status = "canceled" THEN "cancelled"
  ELSE "active"

\* StripeService.handleSubscriptionUpdated
HandleSubscriptionUpdated(subscriptionId, status, cancelAtPeriodEnd, periodEnd) ==
  /\ planOps < MaxPlanOps
  /\ planOps' = planOps + 1
  /\ subscriptions' = [u \in DOMAIN subscriptions |->
                       IF u \in RowsOfStripeId(subscriptionId)
                       THEN [subscriptions[u] EXCEPT
                               !.status = DbStatus(status),
                               !.cancel_at_period_end = cancelAtPeriodEnd,
                               !.current_period_end = periodEnd]
                       ELSE subscriptions[u]]
  /\ lastPlan' = [op |-> "handleSubscriptionUpdated",
                  changes |-> Cardinality(RowsOfStripeId(subscriptionId))]
  /\ UNCHANGED <<now, users, srVars, limitVars, askVars, accessTokens,
                 authVars, regVars, remVars, otherVars>>

\* ------------------------------------------- AuthService, auth middleware

\* REFRESH_TOKEN_EXPIRY = '7d', in days
RefreshDays == 7

\* a string that is no signed token ('invalid-token')
NoToken == 0

\* verifyToken: jwt.verify accepts a token signed here whose exp lies ahead
VerifyToken(token) ==
  /\ token \in 1 .. Len(issued)
  /\ now < issued[token].iat + RefreshDays

\* what bcrypt reads of a token: its first 72 bytes
BcryptKey(token) == issued[token].userId

\* bcrypt.compare(token, storedToken.token_hash), the hash being that of the
\* token tokenHash
BcryptCompare(token, tokenHash) == BcryptKey(token) = BcryptKey(tokenHash)

\* generateRefreshToken: the refresh_tokens row of the token signed next
NewRefreshRow(userId) ==
  [user_id |-> userId, token_hash |-> Len(issued) + 1,
   expires_at |-> now + RefreshDays, revoked |-> FALSE]

\* generateRefreshToken: INSERT INTO refresh_tokens
InsertRefreshToken(table, userId) ==
  table @@ ((Len(issued) + 1) :> NewRefreshRow(userId))

\* generateRefreshToken: jwt.sign of the refresh token
SignRefreshToken(userId) == Append(issued, [userId |-> userId, iat |-> now])

\* the SELECT of verifyRefreshToken: expires_at is an ISO string ("...T...")
\* and datetime('now') has a space in that place, so a row whose expiry date
\* is today still compares greater
StoredTokens(userId) ==
  {id \in DOMAIN refresh_tokens :
     /\ refresh_tokens[id].user_id = userId
     /\ ~refresh_tokens[id].revoked
     /\ refresh_tokens[id].expires_at >= now}

\* verifyRefreshToken: the token verifies and matches a stored row
VerifyRefreshToken(token) ==
  /\ VerifyToken(token)
  /\ \E id \in StoredTokens(issued[token].userId) :
       BcryptCompare(token, refresh_tokens[id].token_hash)

\* revokeUserRefreshTokens: UPDATE ... SET revoked = 1 WHERE user_id = ?
RevokeUserRefreshTokens(table, userId) ==
  [id \in DOMAIN table |->
     IF table[id].user_id = userId THEN [table[id] EXCEPT !.revoked = TRUE]
     ELSE table[id]]

\* the tokens signed for a user so far
TokensOf(userId) == {t \in 1 .. Len(issued) : issued[t].userId = userId}

\* AuthService.refreshTokens
RefreshTokens(token) ==
  /\ IF VerifyRefreshToken(token) /\ issued[token].userId \in DOMAIN users
     THEN LET userId == issued[token].userId
          IN /\ Len(issued) < MaxTokens
             /\ refresh_tokens' =
                  InsertRefreshToken(RevokeUserRefreshTokens(refresh_tokens, userId),
                                     userId)
             /\ issued' = SignRefreshToken(userId)
             /\ accessTokens' =
                  [accessTokens EXCEPT ![userId] = @ \cup {users[userId].plan}]
             /\ lastAuth' = [op |-> "refreshTokens", token |-> token,
                             accepted |-> TRUE]
     ELSE /\ lastAuth' = [op |-> "refreshTokens", token |-> token,
                          accepted |-> FALSE]
          /\ UNCHANGED <<refresh_tokens, issued, accessTokens, regVars, remVars, otherVars>>
  /\ UNCHANGED <<now, users, srVars, limitVars, askVars, subscriptions,
                 lastPlan, planOps, loggedOut, loggedOutAll, regVars,
                 remVars, otherVars>>

\* the refreshTokens calls that may be in progress at a time
RefreshCalls == {"a", "b"}

\* the tokens of a user that verifyRefreshToken accepts, for a table
AcceptedTokens(table, userId) ==
  {t \in TokensOf(userId) :
     /\ VerifyToken(t)
     /\ \E id \in DOMAIN table :
          /\ table[id].user_id = userId
          /\ ~table[id].revoked
          /\ table[id].expires_at >= now
          /\ BcryptCompare(t, table[id].token_hash)}

\* refreshTokens up to the first await of verifyRefreshToken: verifyToken and
\* the SELECT of the stored rows, which the bcrypt.compare loop then goes
\* through
RefreshVerify(call, token) ==
  /\ refreshing[call].pc = "idle"
  /\ IF VerifyToken(token)
     THEN /\ refreshing' = [refreshing EXCEPT ![call] =
               [pc |-> "comparing", token |-> token,
                hashes |-> {refresh_tokens[id].token_hash :
                              id \in StoredTokens(issued[token].userId)}]]
          /\ lastAuth' = lastAuth
     ELSE /\ refreshing' = refreshing
          /\ lastAuth' = [op |-> "refreshTokens", token |-> token,
                          accepted |-> FALSE]
  /\ UNCHANGED <<now, users, srVars, limitVars, askVars, planVars, issued,
                 refresh_tokens, loggedOut, loggedOutAll, regVars, remVars,
                 lastAnalytics, refreshed, lastStart, streakVars, quizVars>>

\* refreshTokens after the bcrypt.compare loop: return null, or the SELECT
\* of the user, revokeUserRefreshTokens, generateAccessToken and the
\* jwt.sign of generateRefreshToken, up to the await of bcrypt.hash
RefreshRevoke(call) ==
  /\ refreshing[call].pc = "comparing"
  /\ LET token == refreshing[call].token
         userId == issued[token].userId
     IN IF /\ \E tokenHash \in refreshing[call].hashes :
                BcryptCompare(token, tokenHash)
           /\ userId \in DOMAIN users
        THEN /\ Len(issued) < MaxTokens
             /\ refresh_tokens' = RevokeUserRefreshTokens(refresh_tokens, userId)
             /\ issued' = SignRefreshToken(userId)
             /\ accessTokens' =
                  [accessTokens EXCEPT ![userId] = @ \cup {users[userId].plan}]
             /\ refreshing' = [refreshing EXCEPT ![call] =
                  [pc |-> "hashing", token |-> token,
                   newToken |-> Len(issued) + 1]]
             /\ lastAuth' = lastAuth
        ELSE /\ refreshing' = [refreshing EXCEPT ![call] = [pc |-> "idle"]]
             /\ lastAuth' = [op |-> "refreshTokens", token |-> token,
                             accepted |-> FALSE]
             /\ UNCHANGED <<refresh_tokens, issued, accessTokens>>
  /\ UNCHANGED <<now, users, srVars, limitVars, askVars, subscriptions,
                 lastPlan, planOps, loggedOut, loggedOutAll, regVars, remVars,
                 lastAnalytics, refreshed, lastStart, streakVars, quizVars>>

\* refreshTokens after the await of bcrypt.hash: the INSERT INTO
\* refresh_tokens and the return of the token pair
RefreshStore(call) ==
  /\ refreshing[call].pc = "hashing"
  /\ LET token == refreshing[call].token
         newToken == refreshing[call].newToken
         userId == issued[token].userId
         table == refresh_tokens @@
                    (newToken :> [user_id |-> userId, token_hash |-> newToken,
                                  expires_at |-> now + RefreshDays,
                                  revoked |-> FALSE])
     IN /\ refresh_tokens' = table
        /\ refreshed' = Append(refreshed,
             [token |-> token, newToken |-> newToken,
              accepted |-> AcceptedTokens(table, userId)])
        /\ lastAuth' = [op |-> "refreshTokens", token |-> token,
                        accepted |-> TRUE]
  /\ refreshing' = [refreshing EXCEPT ![call] = [pc |-> "idle"]]
  /\ UNCHANGED <<now, users, srVars, limitVars, askVars, planVars, issued,
                 loggedOut, loggedOutAll, regVars, remVars, lastAnalytics, lastStart, streakVars, quizVars>>

\* the rows revokeRefreshToken compares the token with
UnrevokedMatches(token) ==
  IF VerifyToken(token)
  THEN {id \in DOMAIN refresh_tokens :
          /\ refresh_tokens[id].user_id = issued[token].userId
          /\ ~refresh_tokens[id].revoked
          /\ BcryptCompare(token, refresh_tokens[id].token_hash)}
  ELSE {}

\* AuthService.logout (revokeRefreshToken): the first matching row is
\* revoked; the SELECT has no ORDER BY, so first is any of them
Logout(token, first) ==
  /\ IF UnrevokedMatches(token) = {}
     THEN /\ first = NoToken
          /\ UNCHANGED <<refresh_tokens, loggedOut, regVars, remVars, otherVars>>
          /\ lastAuth' = [op |-> "logout", token |-> token, accepted |-> FALSE]
     ELSE /\ first \in UnrevokedMatches(token)
          /\ refresh_tokens' = [refresh_tokens EXCEPT ![first].revoked = TRUE]
          /\ loggedOut' = loggedOut \cup {token}
          /\ lastAuth' = [op |-> "logout", token |-> token, accepted |-> TRUE]
  /\ UNCHANGED <<now, users, srVars, limitVars, askVars, planVars, issued,
                 loggedOutAll, regVars, remVars, otherVars>>

\* AuthService.logoutAllDevices (revokeUserRefreshTokens)
LogoutAllDevices(userId) ==
  /\ refresh_tokens' = RevokeUserRefreshTokens(refresh_tokens, userId)
  /\ loggedOutAll' = loggedOutAll \cup TokensOf(userId)
  /\ lastAuth' = [op |-> "logoutAllDevices", userId |-> userId,
                  othersKept |->
                    \A id \in DOMAIN refresh_tokens :
                      refresh_tokens[id].user_id # userId
                        => refresh_tokens'[id] = refresh_tokens[id]]
  /\ UNCHANGED <<now, users, srVars, limitVars, askVars, planVars, issued,
                 loggedOut, regVars, remVars, otherVars>>

\* the rows deleted by cleanupExpiredTokens: expires_at < datetime('now')
\* (false on the expiry date itself, see StoredTokens) OR revoked = 1
Cleanable ==
  {id \in DOMAIN refresh_tokens :
     refresh_tokens[id].expires_at < now \/ refresh_tokens[id].revoked}

\* AuthService.cleanupExpiredTokens
CleanupExpiredTokens ==
  /\ refresh_tokens' = [id \in DOMAIN refresh_tokens \ Cleanable |->
                          refresh_tokens[id]]
  /\ lastAuth' = [op |-> "cleanupExpiredTokens",
                  changes |-> Cardinality(Cleanable)]
  /\ UNCHANGED <<now, users, srVars, limitVars, askVars, planVars, issued,
                 loggedOut, loggedOutAll, regVars, remVars, otherVars>>

\* POST /api/auth/register: registerUser, which signs the first token pair
\* with plan 'free', then createSubscription(userId, 'free')
RegisterAccount(userId) ==
  /\ userId \notin DOMAIN users
  /\ registering[userId].pc = "idle"
  /\ ~EmailRegistered(EmailOf(userId))
  /\ Len(issued) < MaxTokens
  /\ refresh_tokens' = InsertRefreshToken(refresh_tokens, userId)
  /\ issued' = SignRefreshToken(userId)
  /\ users' = users @@ (userId :> NewUser(EmailOf(userId)))
  /\ user_progress' = user_progress @@ (userId :> NewProgress)
  /\ accessTokens' = [accessTokens EXCEPT ![userId] = @ \cup {"free"}]
  /\ subscriptions' = subscriptions @@ (userId :> NewSubscription("free"))
  /\ UNCHANGED <<now, word_history, lastReview, allCorrect, reviewCalls,
                 limitVars, askVars,
                 lastPlan, planOps, loggedOut, loggedOutAll, lastAuth,
                 regVars, remVars, otherVars>>

\* AuthService.authenticateUser with the right password: the access token
\* carries the plan read from the users row
Login(userId) ==
  /\ userId \in DOMAIN users
  /\ Len(issued) < MaxTokens
  /\ accessTokens' = [accessTokens EXCEPT ![userId] = @ \cup {users[userId].plan}]
  /\ refresh_tokens' = InsertRefreshToken(refresh_tokens, userId)
  /\ issued' = SignRefreshToken(userId)
  /\ UNCHANGED <<now, users, srVars, limitVars, askVars, subscriptions,
                 lastPlan, planOps, loggedOut, loggedOutAll, lastAuth,
                 regVars, remVars, otherVars>>

\* the addresses clients register with
Emails == {EmailOf(u) : u \in Users}

\* variant: the email column carries no UNIQUE constraint
EmailUnconstrained(email) == TRUE

\* users.email is UNIQUE: the INSERT is accepted only for a new address
EmailUnique(email) == ~EmailRegistered(email)

\* what a registration call leaves behind when it returns or throws
RegisterCall(op, userId, email, ok, taken) ==
  [op |-> op, userId |-> userId, email |-> email, ok |-> ok, taken |-> taken,
   kept |-> /\ users' = users
            /\ user_progress' = user_progress
            /\ refresh_tokens' = refresh_tokens]

\* UserService.register(username, email, password): no await between the
\* duplicate check and the two INSERTs
UserRegister(userId, email) ==
  /\ userId \notin DOMAIN users
  /\ registering[userId].pc = "idle"
  /\ IF EmailRegistered(email) \/ ~EmailUnique(email)
     THEN UNCHANGED <<users, user_progress, remVars, otherVars>>
     ELSE /\ users' = users @@ (userId :> NewUser(email))
          /\ user_progress' = user_progress @@ (userId :> NewProgress)
  /\ UNCHANGED <<now, word_history, lastReview, allCorrect, reviewCalls,
                 limitVars, askVars,
                 planVars, authVars, registering, remVars, otherVars>>
  /\ lastRegister' = RegisterCall("register", userId, email,
                                  ~EmailRegistered(email) /\ EmailUnique(email),
                                  EmailRegistered(email))

\* AuthService.registerUser, up to "await this.hashPassword(password)": the
\* duplicate check; userId is the uuid the call will draw
RegisterUserCheck(userId, email) ==
  /\ userId \notin DOMAIN users
  /\ registering[userId].pc = "idle"
  /\ IF EmailRegistered(email)
     THEN /\ registering' = registering
          /\ UNCHANGED <<now, users, srVars, limitVars, askVars, planVars, authVars,
                 remVars, otherVars>>
          /\ lastRegister' = RegisterCall("registerUser", userId, email, FALSE, TRUE)
     ELSE /\ registering' = [registering EXCEPT ![userId] =
                               [pc |-> "hashing", email |-> email]]
          /\ UNCHANGED <<now, users, srVars, limitVars, askVars, planVars, authVars,
                         lastRegister, remVars, otherVars>>

\* AuthService.registerUser, from the INSERT INTO users to
\* "await bcrypt.hash(token, ...)" in generateRefreshToken: both INSERTs and
\* the signing of the token pair, or the constraint error of the first INSERT
RegisterUserInsert(userId) ==
  /\ registering[userId].pc = "hashing"
  /\ LET email == registering[userId].email
     IN IF ~EmailUnique(email)
        THEN /\ registering' = [registering EXCEPT ![userId] = [pc |-> "idle"]]
             /\ UNCHANGED <<now, users, srVars, limitVars, askVars, planVars,
                            authVars, remVars, otherVars>>
             /\ lastRegister' =
                  RegisterCall("registerUser", userId, email, FALSE, FALSE)
        ELSE /\ Len(issued) < MaxTokens
             /\ users' = users @@ (userId :> NewUser(email))
             /\ user_progress' = user_progress @@ (userId :> NewProgress)
             /\ accessTokens' = [accessTokens EXCEPT ![userId] = @ \cup {"free"}]
             /\ issued' = SignRefreshToken(userId)
             /\ registering' = [registering EXCEPT ![userId] =
                                  [pc |-> "signing", email |-> email,
                                   token |-> Len(issued) + 1]]
             /\ UNCHANGED <<now, word_history, lastReview, allCorrect, reviewCalls,
                 limitVars,
                            askVars, subscriptions, lastPlan, planOps,
                            refresh_tokens, loggedOut, loggedOutAll, lastAuth,
                            lastRegister, remVars, otherVars>>

\* AuthService.registerUser, after the await of generateRefreshToken: the
\* INSERT INTO refresh_tokens and the return
RegisterUserStoreToken(userId) ==
  /\ registering[userId].pc = "signing"
  /\ refresh_tokens' = refresh_tokens @@
       (registering[userId].token :>
          [user_id |-> userId, token_hash |-> registering[userId].token,
           expires_at |-> now + RefreshDays, revoked |-> FALSE])
  /\ registering' = [registering EXCEPT ![userId] = [pc |-> "done"]]
  /\ UNCHANGED <<now, users, srVars, limitVars, askVars, planVars, issued,
                 loggedOut, loggedOutAll, lastAuth, remVars, otherVars>>
  /\ lastRegister' = RegisterCall("registerUser", userId,
                                  registering[userId].email, TRUE, FALSE)

\* authenticate: jwt.verify accepts a token that was signed and has not expired
Authenticate(userId, tokenPlan) == tokenPlan \in accessTokens[userId]

\* requirePlan(allowedPlans): allowedPlans.includes(req.user.plan)
RequirePlan(allowedPlans, userId, tokenPlan) == tokenPlan \in allowedPlans

\* GET /api/plans/premium/analytics: authenticate, requirePremium, handler
GetPremiumAnalytics(userId, tokenPlan) ==
  /\ lastPlan' =
       [op |-> "premium", userId |-> userId, tokenPlan |-> tokenPlan,
        storedPlan |-> IF userId \in DOMAIN users THEN users[userId].plan
                       ELSE "none",
        status |-> IF ~Authenticate(userId, tokenPlan) THEN 401
                   ELSE IF ~RequirePlan({"premium", "education"}, userId, tokenPlan)
                   THEN 403
                   ELSE 200]
  /\ UNCHANGED <<now, users, srVars, limitVars, askVars, subscriptions,
                 accessTokens, planOps, authVars, regVars, remVars, otherVars>>

\* a billing month and a day pass; every access token (15 minutes) expires
MonthPasses ==
  /\ now < MaxMonths * (DaysInMonth + 1)
  /\ now' = now + DaysInMonth + 1
  /\ granted' = [u \in Users |-> 0]
  /\ answered' = [u \in Users |-> 0]
  /\ accessTokens' = [u \in Users |-> {}]
  /\ UNCHANGED <<users, srVars, service, dailyLimit, lastLimit, lastAsk,
                 subscriptions, lastPlan, planOps, authVars, regVars,
                 remVars, otherVars>>

\* ------------------------------------------------- streak of learning days

\* streak and last_active_date as both registrations insert them (0, NULL)
NewActivity == [streak |-> 0, last_active_date |-> NoDate]

\* the columns streak and last_active_date of a user's user_progress row
ActivityOf(userId) ==
  IF userId \in DOMAIN activity THEN activity[userId] ELSE NewActivity

\* newStreak of updateStreak; dates are calendar days (split('T')[0])
NewStreak(progress, today) ==
  IF progress.last_active_date = NoDate THEN 1
  ELSE IF progress.last_active_date = today THEN progress.streak
  ELSE IF today - progress.last_active_date = 1 THEN progress.streak + 1
  ELSE 1

\* UserService.updateStreak: 0 for a user without a user_progress row, else
\* the new streak, stored together with last_active_date by updateProgress
UpdateStreak(userId) ==
  /\ IF userId \notin DOMAIN user_progress
     THEN /\ activity' = activity
          /\ lastStreak' = [op |-> "updateStreak", userId |-> userId,
                            registered |-> FALSE, returned |-> 0,
                            before |-> NewActivity, today |-> now]
     ELSE /\ activity' =
               [u \in DOMAIN activity \cup {userId} |->
                  IF u = userId
                  THEN [streak |-> NewStreak(ActivityOf(userId), now),
                        last_active_date |-> now]
                  ELSE activity[u]]
          /\ lastStreak' = [op |-> "updateStreak", userId |-> userId,
                            registered |-> TRUE,
                            returned |-> NewStreak(ActivityOf(userId), now),
                            before |-> ActivityOf(userId), today |-> now]
  /\ UNCHANGED <<now, users, srVars, limitVars, askVars, planVars, authVars,
                 regVars, remVars, lastAnalytics, refreshVars, lastStart,
                 quizVars>>

\* LessonService.markComplete for a registered user: the UPDATE of
\* user_progress sets last_active_date and leaves streak as it is
MarkComplete(userId) ==
  /\ userId \in DOMAIN user_progress
  /\ activity' = [u \in DOMAIN activity \cup {userId} |->
                    IF u = userId
                    THEN [ActivityOf(userId) EXCEPT !.last_active_date = now]
                    ELSE activity[u]]
  /\ UNCHANGED <<now, users, srVars, limitVars, askVars, planVars, authVars,
                 regVars, remVars, lastAnalytics, refreshVars, lastStart,
                 quizVars, lastStreak>>

\* ------------------------------------------------------- specifications

InitWith(svc, limit) ==
  /\ now = 0
  /\ users = <<>>
  /\ user_progress = <<>>
  /\ word_history = <<>>
  /\ lastReview = [op |-> "none"]
  /\ allCorrect = {}
  /\ reviewCalls = <<>>
  /\ service = svc
  /\ dailyLimit = limit
  /\ lastLimit = [op |-> "none"]
  /\ granted = [u \in Users |-> 0]
  /\ answered = [u \in Users |-> 0]
  /\ lastAsk = [op |-> "none"]
  /\ subscriptions = <<>>
  /\ accessTokens = [u \in Users |-> {}]
  /\ lastPlan = [op |-> "none"]
  /\ planOps = 0
  /\ issued = <<>>
  /\ refresh_tokens = <<>>
  /\ loggedOut = {}
  /\ loggedOutAll = {}
  /\ lastAuth = [op |-> "none"]
  /\ registering = [u \in Users |-> [pc |-> "idle"]]
  /\ lastRegister = [op |-> "none"]
  /\ reminder_settings = <<>>
  /\ sentCallDay = [u \in Users |-> NoDate]
  /\ sentRowDay = [u \in Users |-> NoDate]
  /\ lastReminder = [op |-> "none"]
  /\ lastDue = [op |-> "none"]
  /\ lastAnalytics = [op |-> "none"]
  /\ refreshing = [call \in RefreshCalls |-> [pc |-> "idle"]]
  /\ refreshed = <<>>
  /\ lastStart = [op |-> "none"]
  /\ activity = <<>>
  /\ lastStreak = [op |-> "none"]
  /\ quizCache = <<>>
  /\ quizRequests = [call \in QuizCalls |-> [pc |-> "idle"]]
  /\ served = {}
  /\ lastQuiz = [op |-> "none"]

Init == InitWith("db", DefaultDailyQuestions)

Next ==
  \/ \E userId \in Users : Register(userId)
  \/ \E userId \in Users, word \in Words, quality \in Qualities,
        low \in BOOLEAN, tieUp \in BOOLEAN :
       RecordReview(userId, word, quality, low, tieUp)

Spec == Init /\ [][Next]_vars

\* the qualities reviewed where only the dates of the rows matter
DatedQualities == {4}

\* the review queue: reviews, days, and getWordsToReview
NextDue ==
  \/ \E userId \in Users : Register(userId)
  \/ \E userId \in Users, word \in Words, quality \in DatedQualities :
       RecordReview(userId, word, quality, FALSE, FALSE)
  \/ \E userId \in Users, limit \in 0 .. MaxLimit, tieOrder \in TieOrders :
       GetWordsToReview(userId, limit, tieOrder)
  \/ Tick

SpecDue == Init /\ [][NextDue]_vars

\* the words learned (reviewed once) where only the presence of a due word
\* matters
ReminderWords == {"w1"}

\* the reminders: settings, reviews, days, recordReminderSent and
\* getUsersForReminder
NextReminder ==
  \/ \E userId \in Users : Register(userId)
  \/ \E userId \in Users, word \in ReminderWords, quality \in DatedQualities :
       ~HasRow(userId, word) /\ RecordReview(userId, word, quality, FALSE, FALSE)
  \/ \E userId \in Users, hasEnabled \in BOOLEAN, enabled \in BOOLEAN :
       UpdateSettings(userId, hasEnabled, enabled)
  \/ \E userId \in Users : InitializeForUser(userId)
  \/ \E userId \in Users : RecordReminderSent(userId)
  \/ \E tieOrder \in TieOrders : GetUsersForReminder(tieOrder)
  \/ Tick

SpecReminder == Init /\ [][NextReminder]_vars

\* the most words a user learns, and the most reviews of one word, where the
\* analytics are checked
MaxWords == 11
MaxRepeats == 5

\* names of words
WordNames ==
  <<"w1", "w2", "w3", "w4", "w5", "w6", "w7", "w8", "w9", "w10", "w11", "w12",
    "w13", "w14">>

\* the qualities of the reviews of the word that is reviewed repeatedly
WeaknessQualities == {2, 3, 5}

\* the number of reviews of a word so far
ReviewsOf(userId, word) ==
  IF HasRow(userId, word)
  THEN word_history[<<userId, word>>].correct_count
         + word_history[<<userId, word>>].incorrect_count
  ELSE 0

\* a user's weak points: u2 learns w1; then u1 reviews w1 up to MaxRepeats
\* times, and then learns further words with quality 0, one after the other
NextWeakness ==
  \/ \E userId \in Users : Register(userId)
  \/ \E quality \in WeaknessQualities, low \in BOOLEAN :
       /\ HasRow("u2", WordNames[1])
       /\ ReviewsOf("u1", WordNames[1]) < MaxRepeats
       /\ ~HasRow("u1", WordNames[2])
       /\ Review("u1", WordNames[1], quality, low, FALSE)
  \/ \E i \in 2 .. MaxWords :
       /\ HasRow("u1", WordNames[i - 1])
       /\ ~HasRow("u1", WordNames[i])
       /\ Review("u1", WordNames[i], 0, FALSE, FALSE)
  \/ /\ ~HasRow("u2", WordNames[1])
     /\ Review("u2", WordNames[1], 0, FALSE, FALSE)
  \/ \E userId \in Users : DetectWeaknesses(userId)

SpecWeakness == Init /\ [][NextWeakness]_vars

\* the qualities of the reviews where the performance of words is analysed
PerformanceQualities == {1, 4, 5}

\* a user's word performance: u2 learns w1; then u1 reviews w1 up to
\* MaxRepeats times and w2 once
NextPerformance ==
  \/ \E userId \in Users : Register(userId)
  \/ \E quality \in PerformanceQualities, low \in BOOLEAN :
       /\ HasRow("u2", WordNames[1])
       /\ ReviewsOf("u1", WordNames[1]) < MaxRepeats
       /\ Review("u1", WordNames[1], quality, low, FALSE)
  \/ \E quality \in PerformanceQualities :
       /\ HasRow("u1", WordNames[1])
       /\ ~HasRow("u1", WordNames[2])
       /\ Review("u1", WordNames[2], quality, FALSE, FALSE)
  \/ \E quality \in PerformanceQualities :
       /\ ~HasRow("u2", WordNames[1])
       /\ Review("u2", WordNames[1], quality, FALSE, FALSE)
  \/ \E userId \in Users : AnalyzeWordPerformance(userId)

SpecPerformance == Init /\ [][NextPerformance]_vars

\* the qualities of the reviews where a word is reviewed again and again
RecallQualities == {0, 3, 4, 5}

\* right and wrong answers for one word: u1 reviews w1 up to MaxRepeats times
NextRecall ==
  \/ \E userId \in Users : Register(userId)
  \/ \E quality \in RecallQualities, low \in BOOLEAN, tieUp \in BOOLEAN :
       /\ ReviewsOf("u1", WordNames[1]) < MaxRepeats
       /\ Review("u1", WordNames[1], quality, low, tieUp)

SpecRecall == Init /\ [][NextRecall]_vars

\* starting words: POST /api/review/start for any word, POST /api/review for
\* the words outside the vocabulary, and days
NextStart ==
  \/ \E userId \in Users : Register(userId)
  \/ \E userId \in Users, word \in Words : StartLearning(userId, word)
  \/ \E userId \in Users, word \in Words \ Vocabulary, quality \in DatedQualities :
       RecordReview(userId, word, quality, FALSE, FALSE)
  \/ Tick

SpecStart == Init /\ [][NextStart]_vars

\* quizzes: GET requests that interleave at the await of generateQuiz, and
\* submissions
NextQuiz ==
  \/ \E call \in QuizCalls, key \in QuizKeys : GetQuiz(call, key)
  \/ \E call \in QuizCalls, questions \in QuizLists :
       GetQuizGenerated(call, questions)
  \/ \E quizId \in QuizKeys, answers \in AnswerLists : SubmitQuiz(quizId, answers)

SpecQuiz == Init /\ [][NextQuiz]_vars

\* the question quota, under either UserService and several limits
InitLimit ==
  \E svc \in {"db", "memory"}, limit \in DailyLimits : InitWith(svc, limit)

NextLimit ==
  \/ \E userId \in Users : Register(userId)
  \/ \E userId \in Users, newPlan \in Plans : UserUpgradePlan(userId, newPlan)
  \/ \E userId \in Users : CheckAndUpdateQuestionLimitDb(userId)
  \/ \E userId \in Users : CheckAndUpdateQuestionLimitMemory(userId)
  \/ Tick

SpecLimit == InitLimit /\ [][NextLimit]_vars

\* clients of POST /api/ask
NextAsk ==
  \/ \E userId \in Users : Register(userId)
  \/ \E userId \in Users, hasQuestion \in BOOLEAN, aiFails \in BOOLEAN :
       PostAsk(userId, hasQuestion, aiFails)
  \/ Tick

SpecAsk == Init /\ [][NextAsk]_vars

\* subscriptions and plans: PlanService and the Stripe webhooks
NextPlan ==
  \/ \E userId \in Users : Register(userId)
  \/ \E userId \in Users : RegisterAccount(userId)
  \/ \E userId \in Users, plan \in Plans : CreateSubscription(userId, plan)
  \/ \E userId \in Users, newPlan \in Plans : UpgradePlan(userId, newPlan)
  \/ \E userId \in Users : ScheduleCancellation(userId)
  \/ \E userId \in Users : CancelCancellation(userId)
  \/ \E userId \in Users : CancelImmediately(userId)
  \/ ProcessExpiredSubscriptions
  \/ \E userId \in Users, plan \in Plans : HandleCheckoutCompleted(userId, plan)
  \/ \E userId \in Users : HandleSubscriptionDeleted(StripeIdOf(userId))
  \/ MonthPasses

SpecPlan == Init /\ [][NextPlan]_vars

\* access tokens and the premium guard, with the calls that change a plan
NextGuard ==
  \/ \E userId \in Users : RegisterAccount(userId)
  \/ \E userId \in Users : Login(userId)
  \/ \E userId \in Users, newPlan \in Plans : UpgradePlan(userId, newPlan)
  \/ \E userId \in Users : ScheduleCancellation(userId)
  \/ \E userId \in Users : CancelImmediately(userId)
  \/ ProcessExpiredSubscriptions
  \/ \E userId \in Users, plan \in Plans : HandleCheckoutCompleted(userId, plan)
  \/ \E userId \in Users : HandleSubscriptionDeleted(StripeIdOf(userId))
  \/ \E userId \in Users, tokenPlan \in Plans : GetPremiumAnalytics(userId, tokenPlan)
  \/ MonthPasses

SpecGuard == Init /\ [][NextGuard]_vars

\* refresh tokens: registration, login, refresh, logout, cleanup, and the
\* passing of more than their seven days
NextAuth ==
  \/ \E userId \in Users : RegisterAccount(userId)
  \/ \E userId \in Users : Login(userId)
  \/ \E token \in NoToken .. MaxTokens : RefreshTokens(token)
  \/ \E token \in NoToken .. MaxTokens, first \in NoToken .. MaxTokens :
       Logout(token, first)
  \/ \E userId \in Users : LogoutAllDevices(userId)
  \/ CleanupExpiredTokens
  \/ MonthPasses

SpecAuth == Init /\ [][NextAuth]_vars

\* refreshTokens calls that interleave at their awaits
NextRefresh ==
  \/ \E userId \in Users : RegisterAccount(userId)
  \/ \E call \in RefreshCalls, token \in NoToken .. MaxTokens :
       RefreshVerify(call, token)
  \/ \E call \in RefreshCalls : RefreshRevoke(call)
  \/ \E call \in RefreshCalls : RefreshStore(call)

SpecRefresh == Init /\ [][NextRefresh]_vars

\* registrations: UserService.register, and registerUser calls that
\* interleave at their awaits
NextRegister ==
  \/ \E userId \in Users, email \in Emails : UserRegister(userId, email)
  \/ \E userId \in Users, email \in Emails : RegisterUserCheck(userId, email)
  \/ \E userId \in Users : RegisterUserInsert(userId)
  \/ \E userId \in Users : RegisterUserStoreToken(userId)

SpecRegister == Init /\ [][NextRegister]_vars

\* period ends a Stripe event may carry: the end of the month that starts now
PeriodEnds == {now + DaysInMonth}

\* subscriptions kept in step with Stripe: accounts made by POST /register,
\* the cancellation calls, the expiry job and every webhook
NextStripe ==
  \/ \E userId \in Users : RegisterAccount(userId)
  \/ \E userId \in Users : ScheduleCancellation(userId)
  \/ \E userId \in Users : CancelCancellation(userId)
  \/ ProcessExpiredSubscriptions
  \/ \E userId \in Users, plan \in Plans : HandleCheckoutCompleted(userId, plan)
  \/ \E userId \in Users, hasPeriodEnd \in BOOLEAN, periodEnd \in PeriodEnds :
       HandleInvoicePaymentSucceeded(StripeIdOf(userId), hasPeriodEnd, periodEnd)
  \/ \E userId \in Users : HandleInvoicePaymentFailed(StripeIdOf(userId))
  \/ \E userId \in Users : HandleSubscriptionDeleted(StripeIdOf(userId))
  \/ \E userId \in Users, status \in StripeStatuses,
        cancelAtPeriodEnd \in BOOLEAN, periodEnd \in PeriodEnds :
       HandleSubscriptionUpdated(StripeIdOf(userId), status, cancelAtPeriodEnd,
                                 periodEnd)
  \/ MonthPasses

SpecStripe == Init /\ [][NextStripe]_vars

\* accounts made by POST /register under every PlanService operation and
\* every Stripe webhook, in any order
NextBilling ==
  \/ \E userId \in Users : RegisterAccount(userId)
  \/ \E userId \in Users, newPlan \in Plans : UpgradePlan(userId, newPlan)
  \/ \E userId \in Users : ScheduleCancellation(userId)
  \/ \E userId \in Users : CancelCancellation(userId)
  \/ \E userId \in Users : CancelImmediately(userId)
  \/ ProcessExpiredSubscriptions
  \/ \E userId \in Users, plan \in Plans : HandleCheckoutCompleted(userId, plan)
  \/ \E userId \in Users, hasPeriodEnd \in BOOLEAN, periodEnd \in PeriodEnds :
       HandleInvoicePaymentSucceeded(StripeIdOf(userId), hasPeriodEnd, periodEnd)
  \/ \E userId \in Users : HandleInvoicePaymentFailed(StripeIdOf(userId))
  \/ \E userId \in Users : HandleSubscriptionDeleted(StripeIdOf(userId))
  \/ \E userId \in Users, status \in StripeStatuses,
        cancelAtPeriodEnd \in BOOLEAN, periodEnd \in PeriodEnds :
       HandleSubscriptionUpdated(StripeIdOf(userId), status, cancelAtPeriodEnd,
                                 periodEnd)
  \/ MonthPasses

SpecBilling == Init /\ [][NextBilling]_vars

\* the qualities reviewed where the schedule matters: an incorrect answer
\* and a correct one
ScheduledQualities == {1, 4}

\* the user whose reviews are followed through the days
Learners == {"u1"}

\* the schedule: reviews, and days and a month passing
NextSchedule ==
  \/ \E userId \in Users : Register(userId)
  \/ \E userId \in Learners, word \in Words, quality \in ScheduledQualities :
       RecordReview(userId, word, quality, FALSE, FALSE)
  \/ Tick
  \/ MonthPasses

SpecSchedule == Init /\ [][NextSchedule]_vars

\* learning days: registrations, completed lessons, streak updates, days
NextStreak ==
  \/ \E userId \in Users : Register(userId)
  \/ \E userId \in Users : RegisterAccount(userId)
  \/ \E userId \in Users : UpdateStreak(userId)
  \/ \E userId \in Users : MarkComplete(userId)
  \/ Tick

SpecStreak == Init /\ [][NextStreak]_vars

\* the qualities reviewed where only the counters matter: one incorrect
\* answer, the least correct one and the best
CountedQualities == {2, 3, 5}

\* the counters of recordReview: registrations and reviews of two users
NextCount ==
  \/ \E userId \in Users : Register(userId)
  \/ \E userId \in Users, word \in Words, quality \in CountedQualities :
       RecordReview(userId, word, quality, FALSE, FALSE)

SpecCount == Init /\ [][NextCount]_vars

\* ------------------------------------------------------------- properties

Reviewed == lastReview.op = "recordReview"

\* the row the last recordReview call wrote
LastRow == word_history[<<lastReview.userId, lastReview.result.word>>]

\* min(5, max(0, q)), written out
ClampedTo05(q) == IF q < 0 THEN 0 ELSE IF q > 5 THEN 5 ELSE q

C2_QualityClamped ==
  Reviewed =>
    LET c == ClampedTo05(lastReview.quality)
        row == IF lastReview.existed
               THEN UpdatedRow(lastReview.existing, c, lastReview.low, lastReview.tieUp)
               ELSE InsertedRow(c)
    IN /\ LastRow = row
       /\ lastReview.result = ReviewResult(lastReview.result.word, c, row)

\* an existing word has been reviewed with a quality outside 0..5
C2_Witness ==
  /\ Reviewed
  /\ lastReview.existed
  /\ lastReview.quality \notin 0 .. 5
  /\ lastReview.existing.ease_factor > 250

\* C3: isCorrect is true exactly when the clamped quality is >= 3, and the
\* call adds 1 to correctCount when correct, to incorrectCount otherwise,
\* leaving the other counter as it was (0 for a new word)
C3_OneCounterByOne ==
  Reviewed =>
    LET r == lastReview.result
        before == lastReview.existing
    IN /\ r.isCorrect = (ClampedTo05(lastReview.quality) >= 3)
       /\ r.isCorrect =>
            /\ r.correctCount = before.correct_count + 1
            /\ r.incorrectCount = before.incorrect_count
       /\ ~r.isCorrect =>
            /\ r.correctCount = before.correct_count
            /\ r.incorrectCount = before.incorrect_count + 1
       /\ LastRow.correct_count = r.correctCount
       /\ LastRow.incorrect_count = r.incorrectCount

\* quality 3 has been counted as correct on a word with both counters set
C3_Witness ==
  /\ Reviewed
  /\ lastReview.existed
  /\ lastReview.quality = 3
  /\ lastReview.existing.incorrect_count > 0
  /\ lastReview.result.correctCount = lastReview.existing.correct_count + 1

\* C4: the first review of a word creates exactly one row and returns
\* intervalDays 1 and easeFactor 2.5 for every quality, with counters (1, 0)
\* when quality >= 3 and (0, 1) otherwise
C4_FirstReview ==
  (Reviewed /\ ~lastReview.existed) =>
    LET r == lastReview.result
    IN /\ Cardinality(DOMAIN word_history) = lastReview.rowsBefore + 1
       /\ r.intervalDays = 1
       /\ r.easeFactor = 250
       /\ LastRow.interval = 1
       /\ LastRow.ease_factor = 250 /\ ~LastRow.ef_low
       /\ IF ClampedTo05(lastReview.quality) >= 3
          THEN r.correctCount = 1 /\ r.incorrectCount = 0
          ELSE r.correctCount = 0 /\ r.incorrectCount = 1

\* a second word of a user has been created by a review of quality 0
C4_Witness ==
  /\ Reviewed
  /\ ~lastReview.existed
  /\ lastReview.quality <= 0
  /\ lastReview.rowsBefore > 0
  /\ lastReview.result.easeFactor = 250

\* n is a rounding of the decimal p / 100 to a nearest integer
IsRounded(n, p) == 2 * (100 * n - p) <= 100 /\ 2 * (p - 100 * n) <= 100

\* C5: for an existing row an incorrect answer sets the interval to 1; a
\* correct answer sets it to 1 if the stored correct_count was 0, to 6 if it
\* was 1, else to round(stored interval * stored ease factor)
C5_NewInterval ==
  (Reviewed /\ lastReview.existed) =>
    LET before == lastReview.existing
        n == lastReview.result.intervalDays
    IN /\ LastRow.interval = n
       /\ IF ClampedTo05(lastReview.quality) < 3 THEN n = 1
          ELSE IF before.correct_count = 0 THEN n = 1
          ELSE IF before.correct_count = 1 THEN n = 6
          ELSE /\ IsRounded(n, before.interval * before.ease_factor)
               /\ (before.interval * before.ease_factor) % 100 # 50
                    => n = (before.interval * before.ease_factor + 50) \div 100

\* a correct answer after a reset: stored interval 1, stored correct_count
\* >= 2, and the stored (not the updated) ease factor gives the interval
C5_Witness ==
  /\ Reviewed
  /\ lastReview.existed
  /\ lastReview.quality = 3
  /\ lastReview.existing.correct_count >= 2
  /\ lastReview.existing.interval = 1
  /\ lastReview.result.intervalDays = 2
  /\ lastReview.result.easeFactor < 150

\* C6: while a word has only been reviewed with quality >= 3, the returned
\* intervals are 1, then 6, then each greater than the one before
C6_GrowingIntervals ==
  (Reviewed /\ <<lastReview.userId, lastReview.result.word>> \in allCorrect) =>
    LET r == lastReview.result
    IN /\ r.correctCount = 1 => r.intervalDays = 1
       /\ r.correctCount = 2 =>
            r.intervalDays = 6 /\ lastReview.existing.interval = 1
       /\ r.correctCount >= 3 =>
            r.intervalDays > lastReview.existing.interval

\* the fourth review of a word that was always answered correctly
C6_Witness ==
  /\ Reviewed
  /\ <<lastReview.userId, lastReview.result.word>> \in allCorrect
  /\ lastReview.result.correctCount = 4
  /\ lastReview.existing.interval > 6
  /\ lastReview.result.intervalDays > lastReview.existing.interval

Checked == lastLimit.op = "check"

\* C7: a free user gets true for exactly the first dailyLimit calls of a day
\* and false afterwards; a denied call leaves the counter as it was, the
\* counter never exceeds the limit, and a later day starts from zero; a
\* premium or education user gets true with the counter untouched, an
\* unknown user id gets false
C7_DailyQuestionLimit ==
  /\ \A u \in DOMAIN users :
       /\ users[u].daily_questions_used <= dailyLimit
       /\ granted[u] <= dailyLimit
  /\ Checked =>
       LET u == lastLimit.userId
           before == lastLimit.before
       IN /\ ~lastLimit.known => ~lastLimit.result
          /\ (lastLimit.known /\ before.plan # "free") =>
               /\ lastLimit.result
               /\ u \in DOMAIN users =>
                    users[u].daily_questions_used = before.daily_questions_used
          /\ (lastLimit.known /\ before.plan = "free") =>
               /\ lastLimit.result = (lastLimit.grantedBefore < dailyLimit)
               /\ (lastLimit.result /\ u \in DOMAIN users
                     /\ users[u].plan = "free") =>
                    users[u].daily_questions_used = lastLimit.grantedBefore + 1
          /\ (~lastLimit.result /\ u \in DOMAIN users) =>
               users[u].daily_questions_used = before.daily_questions_used

\* on a later day a free user who used up the default limit the day before
\* has been granted all five calls again and is then denied
C7_Witness ==
  /\ Checked
  /\ lastLimit.known
  /\ lastLimit.before.plan = "free"
  /\ ~lastLimit.result
  /\ now > 0
  /\ dailyLimit = DefaultDailyQuestions
  /\ lastLimit.grantedBefore = DefaultDailyQuestions

\* C8: a free-plan user obtains at most dailyLimit answers from POST /api/ask
\* within one day
C8_AskWithinDailyLimit ==
  \A u \in DOMAIN users :
    users[u].plan = "free" => answered[u] <= dailyLimit

\* C9: a request passes the requirePremium guard only if the plan stored for
\* the user at the time of the request is premium or education
C9_PremiumGuardUsesStoredPlan ==
  (lastPlan.op = "premium" /\ lastPlan.status = 200) =>
    lastPlan.storedPlan \in {"premium", "education"}

\* C10: after upgradePlan(userId, newPlan) for an existing user the
\* subscription exists with plan newPlan, status active and no scheduled
\* cancellation, and the users row has plan newPlan
C10_UpgradeSetsBothPlans ==
  lastPlan.op = "upgradePlan" =>
    LET u == lastPlan.userId
    IN /\ u \in DOMAIN subscriptions
       /\ subscriptions[u].plan = lastPlan.newPlan
       /\ subscriptions[u].status = "active"
       /\ ~subscriptions[u].cancel_at_period_end
       /\ users[u].plan = lastPlan.newPlan

CancellationCalled == lastPlan.op \in {"scheduleCancellation", "cancelCancellation"}

\* the frame of scheduleCancellation / cancelCancellation: the flag is set,
\* plan, status, billing period and the user's plan stay, and a user without
\* a subscription gets null and no row
CancellationFrame ==
  CancellationCalled =>
    LET before == lastPlan.before
        after == lastPlan.after
        flag == (lastPlan.op = "scheduleCancellation")
    IN /\ lastPlan.ownersKept
       /\ lastPlan.usersKept
       /\ lastPlan.returned = after
       /\ ~lastPlan.hadSubscription => after = NoSubscription
       /\ lastPlan.hadSubscription =>
            /\ after.cancel_at_period_end = flag
            /\ after.plan = before.plan
            /\ after.status = before.status
            /\ after.current_period_end = before.current_period_end
            /\ after.stripe_subscription_id = before.stripe_subscription_id

\* C11 (as stated): the frame above, and scheduleCancellation followed by
\* cancelCancellation restores the subscription to its prior state
C11_CancellationRoundTrip ==
  /\ CancellationFrame
  /\ (CancellationCalled /\ lastPlan.follows) => lastPlan.after = lastPlan.prior

\* C11 (amended): the frame above, and scheduleCancellation followed by
\* cancelCancellation restores the subscription to its prior state when no
\* cancellation was scheduled before the pair of calls
C11_CancellationRoundTripUnscheduled ==
  /\ CancellationFrame
  /\ (CancellationCalled /\ lastPlan.follows
        /\ ~lastPlan.prior.cancel_at_period_end) =>
       lastPlan.after = lastPlan.prior

\* a premium subscription has been scheduled for cancellation and the
\* cancellation has then been withdrawn
C11_Witness ==
  /\ CancellationCalled
  /\ lastPlan.follows
  /\ lastPlan.prior.plan = "premium"
  /\ ~lastPlan.prior.cancel_at_period_end
  /\ lastPlan.before.cancel_at_period_end
  /\ lastPlan.after = lastPlan.prior

\* the subscriptions whose cancellation was scheduled and whose period had
\* ended when the last processExpiredSubscriptions call started
DueBefore ==
  {u \in DOMAIN lastPlan.before :
     /\ lastPlan.before[u].cancel_at_period_end
     /\ lastPlan.before[u].current_period_end < lastPlan.at}

\* C12: after processExpiredSubscriptions every subscription that had
\* cancelAtPeriodEnd set and a period end in the past has plan free, and so
\* has its user; the number returned is the number of subscriptions the call
\* downgraded; every other subscription is as it was
C12_ExpiredAreDowngraded ==
  lastPlan.op = "processExpiredSubscriptions" =>
    /\ \A u \in DueBefore :
         /\ lastPlan.after[u].plan = "free"
         /\ lastPlan.usersAfter[u].plan = "free"
    /\ lastPlan.changes =
         Cardinality({u \in DOMAIN lastPlan.before :
                        lastPlan.after[u] # lastPlan.before[u]})
    /\ \A u \in DOMAIN lastPlan.before \ DueBefore :
         lastPlan.after[u] = lastPlan.before[u]

Refreshed == lastAuth.op = "refreshTokens"

\* C13: once logout(refreshToken) has returned true, every later
\* refreshTokens call with that token returns null
C13_LoggedOutTokenRejected ==
  (Refreshed /\ lastAuth.token \in loggedOut) => ~lastAuth.accepted

\* C14: after logoutAllDevices(userId) refreshTokens returns null for every
\* token issued to the user before the call, also after a later login, and
\* the rows of other users stay as they were
C14_AllDevicesLoggedOut ==
  /\ (Refreshed /\ lastAuth.token \in loggedOutAll) => ~lastAuth.accepted
  /\ lastAuth.op = "logoutAllDevices" => lastAuth.othersKept

\* C15: no two users share an email address; a registration with an address
\* that is already registered fails; a failed registration leaves users,
\* user_progress and refresh_tokens as they were, and every users row has
\* its user_progress row
C15_EmailsUnique ==
  /\ \A u \in DOMAIN users, v \in DOMAIN users :
       users[u].email = users[v].email => u = v
  /\ DOMAIN user_progress = DOMAIN users
  /\ \A id \in DOMAIN refresh_tokens : refresh_tokens[id].user_id \in DOMAIN users
  /\ lastRegister.op # "none" =>
       /\ lastRegister.taken => ~lastRegister.ok
       /\ ~lastRegister.ok => lastRegister.kept

\* of two registerUser calls that both passed the duplicate check with the
\* same address, the second has failed at its INSERT
C15_Witness ==
  /\ lastRegister.op = "registerUser"
  /\ ~lastRegister.ok
  /\ ~lastRegister.taken
  /\ lastRegister.kept
  /\ \E u \in DOMAIN users :
       u # lastRegister.userId /\ users[u].email = lastRegister.email

\* C18: getWordsToReview(userId, limit) with limit >= 0 returns at most
\* limit words, each a row of userId whose next-review date is on or before
\* the current day, in ascending order of next review: the first limit of
\* the user's due rows, whatever the order of rows with equal dates
C18_DueWordsOfUser ==
  \A u \in Users, limit \in 0 .. MaxLimit, tieOrder \in TieOrders :
    LET r == WordsToReview(u, limit, tieOrder)
        due == {w \in Words :
                  /\ <<u, w>> \in DOMAIN word_history
                  /\ word_history[<<u, w>>].next_review <= now}
    IN /\ Len(r) <= limit
       /\ Len(r) = Min(limit, Cardinality(due))
       /\ \A i \in DOMAIN r :
            /\ r[i].word \in due
            /\ r[i].nextReview = word_history[<<u, r[i].word>>].next_review
            /\ r[i].nextReview <= now
       /\ \A i \in DOMAIN r : \A j \in DOMAIN r :
            /\ i < j => r[i].nextReview <= r[j].nextReview
            /\ i # j => r[i].word # r[j].word
       /\ \A i \in DOMAIN r : \A w \in due :
            (\A j \in DOMAIN r : r[j].word # w) =>
              r[i].nextReview <= word_history[<<u, w>>].next_review

\* a user with two due words of different dates has asked for one and got
\* the earlier, while another user has rows too
C18_Witness ==
  /\ lastDue.op = "getWordsToReview"
  /\ lastDue.limit = 1
  /\ Len(lastDue.words) = 1
  /\ DueToday(lastDue.userId) = 2
  /\ \E tieOrder \in TieOrders :
       WordsToReview(lastDue.userId, 1, tieOrder)[1].word = lastDue.words[1]
  /\ \E w \in DueWords(lastDue.userId) :
       word_history[<<lastDue.userId, w>>].next_review
         > word_history[<<lastDue.userId, lastDue.words[1]>>].next_review
  /\ \E key \in DOMAIN word_history : key[1] # lastDue.userId

\* the users named in the value of getUsersForReminder
TargetUsers(tieOrder) == {t.userId : t \in ReminderTargets(tieOrder)}

\* C16 (first part): getUsersForReminder returns a user only if the user's
\* reminders are enabled, no reminder is recorded as sent to them today, and
\* at least one of their words is due; dueWords is the number of due words.
ReminderTargetsEligible ==
  \A tieOrder \in TieOrders : \A t \in ReminderTargets(tieOrder) :
    /\ HasSettings(t.userId)
    /\ reminder_settings[t.userId].enabled
    /\ reminder_settings[t.userId].last_reminder_sent # now
    /\ sentRowDay[t.userId] # now
    /\ t.dueWords = DueToday(t.userId)
    /\ t.dueWords >= 1

\* C16 (last part): a user with reminders enabled and a due word, whose last
\* recorded reminder is of an earlier day, is returned.
ReminderEligibleLater ==
  \A tieOrder \in TieOrders : \A u \in DOMAIN users :
    (/\ HasSettings(u)
     /\ reminder_settings[u].enabled
     /\ sentRowDay[u] # NoDate
     /\ sentRowDay[u] < now
     /\ DueToday(u) >= 1) => u \in TargetUsers(tieOrder)

\* C16 as stated: after recordReminderSent(user), no getUsersForReminder call
\* of the same day returns the user (and the first and last parts hold).
C16_NotRemindedTwice ==
  /\ ReminderTargetsEligible
  /\ ReminderEligibleLater
  /\ \A tieOrder \in TieOrders : \A u \in Users :
       sentCallDay[u] = now => u \notin TargetUsers(tieOrder)

\* C16, amended: after a recordReminderSent(user) that found the user's
\* reminder_settings row, no getUsersForReminder call of the same day returns
\* the user; the first and last parts hold as stated.
C16_NotRemindedTwiceWithSettings ==
  /\ ReminderTargetsEligible
  /\ ReminderEligibleLater
  /\ \A tieOrder \in TieOrders : \A u \in Users :
       sentRowDay[u] = now => u \notin TargetUsers(tieOrder)

\* getUsersForReminder was just called: a user
\* with reminders enabled, a due word and a reminder recorded today is left
\* out, while another user, reminded the day before, is returned
C16_Witness ==
  /\ lastReminder.op = "getUsersForReminder"
  /\ lastReminder.at = now
  /\ \E tieOrder \in TieOrders : lastReminder.targets = ReminderTargets(tieOrder)
  /\ \E u \in DOMAIN reminder_settings :
       /\ reminder_settings[u].enabled
       /\ DueToday(u) >= 1
       /\ sentRowDay[u] = now
       /\ u \notin {t.userId : t \in lastReminder.targets}
  /\ \E v \in DOMAIN reminder_settings :
       /\ sentRowDay[v] # NoDate
       /\ sentRowDay[v] < now
       /\ v \in {t.userId : t \in lastReminder.targets}

\* the words that are weak as stated: rate below 60% or ease factor below 2.0
StatedWeakWords(userId) ==
  {w \in WordsOf(userId) :
     LET row == word_history[<<userId, w>>]
     IN \/ 10 * row.correct_count < 6 * (row.correct_count + row.incorrect_count)
        \/ row.ease_factor < 200
        \/ (row.ease_factor = 200 /\ row.ef_low)}

\* the report as stated, for a number of weak words
StatedReport(report, count) ==
  /\ report.weakWordsCount = count
  /\ report.weakWords = IF count <= 10 THEN count ELSE 10
  /\ report.weaknessLevel = "none" <=> count = 0
  /\ report.weaknessLevel = "low" <=> count \in 1 .. 3
  /\ report.weaknessLevel = "medium" <=> count \in 4 .. 7
  /\ report.weaknessLevel = "high" <=> count >= 8
  /\ report.weaknessLevel \in {"none", "low", "medium", "high"}

\* C17: detectWeaknesses counts a word as weak exactly when its correct rate
\* is below 60% or its ease factor is below 2.0; weaknessLevel is none for 0
\* weak words, low for 1 to 3, medium for 4 to 7, high for 8 or more;
\* weakWordsCount is the number of weak words though weakWords holds 10 at most.
C17_WeaknessReport ==
  \A userId \in Users :
    /\ WeakWords(userId) = StatedWeakWords(userId)
    /\ StatedReport(WeaknessReport(userId), Cardinality(StatedWeakWords(userId)))

\* detectWeaknesses has just reported 11 weak words, cut to 10, for a user
\* who has a word that is weak by its ease factor of 2.0 less a rounding error
\* alone, and again for a word of rate 60% that is not weak
C17_Witness ==
  /\ lastAnalytics.op = "detectWeaknesses"
  /\ lastAnalytics.report = WeaknessReport(lastAnalytics.userId)
  /\ lastAnalytics.report.weakWordsCount = 11
  /\ lastAnalytics.report.weakWords = 10
  /\ lastAnalytics.report.weaknessLevel = "high"
  /\ \E w \in WeakWords(lastAnalytics.userId) :
       LET row == word_history[<<lastAnalytics.userId, w>>]
       IN row.ease_factor = 200 /\ row.ef_low /\ row.correct_count = 4
            /\ row.incorrect_count = 1

\* a word with three right answers of five and an ease factor of 2.06 is not
\* weak, and the user's weakness level is medium
C17_WitnessBoundary ==
  /\ lastAnalytics.op = "detectWeaknesses"
  /\ lastAnalytics.report = WeaknessReport(lastAnalytics.userId)
  /\ lastAnalytics.report.weaknessLevel = "medium"
  /\ \E w \in WordsOf(lastAnalytics.userId) \ WeakWords(lastAnalytics.userId) :
       LET row == word_history[<<lastAnalytics.userId, w>>]
       IN row.correct_count = 3 /\ row.incorrect_count = 2

\* mastered as stated: correct_count >= 5 and ease factor >= 2.5
StatedMastered(userId) ==
  {w \in WordsOf(userId) :
     LET row == word_history[<<userId, w>>]
     IN /\ row.correct_count >= 5
        /\ row.ease_factor > 250 \/ (row.ease_factor = 250 /\ ~row.ef_low)}

\* struggling as stated: not mastered and incorrect_count > correct_count
StatedStruggling(userId) ==
  {w \in WordsOf(userId) \ StatedMastered(userId) :
     word_history[<<userId, w>>].incorrect_count
       > word_history[<<userId, w>>].correct_count}

\* three sets that partition a set
Partition(a, b, c, whole) ==
  /\ a \cup b \cup c = whole
  /\ a \cap b = {}
  /\ a \cap c = {}
  /\ b \cap c = {}

\* C19: analyzeWordPerformance puts every word of the user in exactly one of
\* mastered (correct_count >= 5 and ease factor >= 2.5), struggling (not
\* mastered, incorrect_count > correct_count) and learning; the three counts
\* add up to totalWords; the easy, medium and hard lists partition the
\* user's words.
C19_WordsPartitioned ==
  \A userId \in Users :
    LET report == WordPerformance(userId)
        mastered == WordsByMastery(userId, "mastered")
        struggling == WordsByMastery(userId, "struggling")
        learning == WordsByMastery(userId, "learning")
    IN /\ Partition(mastered, struggling, learning, WordsOf(userId))
       /\ mastered = StatedMastered(userId)
       /\ struggling = StatedStruggling(userId)
       /\ report.masteredCount = Cardinality(StatedMastered(userId))
       /\ report.strugglingCount = Cardinality(StatedStruggling(userId))
       /\ report.totalWords = Cardinality(WordsOf(userId))
       /\ report.masteredCount + report.learningCount + report.strugglingCount
            = report.totalWords
       /\ Partition(report.easy, report.medium, report.hard, WordsOf(userId))

\* analyzeWordPerformance has just reported, for a user with two words, a word
\* mastered with an ease factor of exactly 2.5 and a struggling word, while
\* another user has a word
C19_Witness ==
  /\ lastAnalytics.op = "analyzeWordPerformance"
  /\ lastAnalytics.report = WordPerformance(lastAnalytics.userId)
  /\ lastAnalytics.report.totalWords = 2
  /\ lastAnalytics.report.masteredCount = 1
  /\ lastAnalytics.report.strugglingCount = 1
  /\ lastAnalytics.report.hard = {}
  /\ \E w \in WordsByMastery(lastAnalytics.userId, "mastered") :
       word_history[<<lastAnalytics.userId, w>>].ease_factor = 250
  /\ \E key \in DOMAIN word_history : key[1] # lastAnalytics.userId

\* the change of the ease factor as stated, in hundredths
StatedEaseChange(q) ==
  CASE q = 5 -> 10
    [] q = 4 -> 0
    [] q = 3 -> 0 - 14
    [] q = 2 -> 0 - 32
    [] q = 1 -> 0 - 54
    [] q = 0 -> 0 - 80

\* C20: for an existing word recordReview adds to the ease factor an amount
\* fixed by the clamped quality (+0.10 for 5, 0 for 4, -0.14 for 3, -0.32 for
\* 2, -0.54 for 1, -0.80 for 0) and then floors it at 1.3; it rises only on
\* quality 5 and falls on quality 3 unless it already is 1.3.
C20_EaseFactorChange ==
  (Reviewed /\ lastReview.existed) =>
    LET before == lastReview.existing.ease_factor
        after == lastReview.result.easeFactor
        q == ClampedTo05(lastReview.quality)
        sum == before + StatedEaseChange(q)
    IN /\ after = IF sum < 130 THEN 130 ELSE sum
       /\ LastRow.ease_factor = after
       /\ after > before <=> q = 5
       /\ (q = 4 /\ before >= 130) => (after = before /\ LastRow.ef_low = lastReview.existing.ef_low)
       /\ (q <= 3 /\ before > 130) => after < before

\* a correct answer of quality 3 has lowered an ease factor that a quality 5
\* had raised before, without reaching the floor
C20_Witness ==
  /\ Reviewed
  /\ lastReview.existed
  /\ lastReview.quality = 3
  /\ lastReview.result.isCorrect
  /\ lastReview.existing.ease_factor = 260
  /\ lastReview.result.easeFactor = 246

\* the last call was a correct answer for a word that had a row
CorrectAgain ==
  /\ Reviewed
  /\ lastReview.existed
  /\ lastReview.result.isCorrect

\* the interval does not decrease on a correct answer
IntervalKeptOrGrown ==
  CorrectAgain => lastReview.result.intervalDays >= lastReview.existing.interval

\* C21: after a wrong answer has set the interval to 1, a run of correct
\* answers eventually returns an interval above 1, and the interval never
\* decreases in the run.  An answer of the run that returns 1 again and does
\* not raise the ease factor leaves the row where the same answer returns 1
\* for ever, so every correct answer at interval 1 must return more than 1 or
\* raise the ease factor.
C21_IntervalsGrowAgain ==
  /\ IntervalKeptOrGrown
  /\ (CorrectAgain /\ lastReview.existing.interval = 1
        /\ lastReview.existing.correct_count >= 2) =>
       \/ lastReview.result.intervalDays > 1
       \/ lastReview.result.easeFactor > lastReview.existing.ease_factor

\* C22 (first part): refreshTokens returns a token pair at most once for a
\* refresh token, also when calls with the same token interleave
RefreshedOnce ==
  \A i \in DOMAIN refreshed, j \in DOMAIN refreshed :
    refreshed[i].token = refreshed[j].token => i = j

\* C22: a refresh token is single-use, and when refreshTokens has returned a
\* token pair the only refresh token of the user that is still accepted is
\* the new one
C22_RefreshTokenSingleUse ==
  /\ RefreshedOnce
  /\ \A i \in DOMAIN refreshed : refreshed[i].accepted = {refreshed[i].newToken}

Started == lastStart.op = "start"

\* C23 (first part): a start request for a word that has a row answers with
\* the row and changes nothing; the row of a vocabulary word, which only start
\* requests write, has correct_count 1, incorrect_count 0, interval 1 and
\* ease factor 2.5, and words_learned counts the words of the user
StartedOnce ==
  /\ (Started /\ lastStart.existed) => (lastStart.status = 200 /\ lastStart.kept)
  /\ \A userId \in DOMAIN users :
       /\ user_progress[userId].words_learned = Cardinality(WordsOf(userId))
       /\ \A word \in Vocabulary :
            HasRow(userId, word) =>
              LET row == word_history[<<userId, word>>]
              IN /\ row.correct_count = 1
                 /\ row.incorrect_count = 0
                 /\ row.interval = 1
                 /\ row.ease_factor = 250
                 /\ ~row.ef_low

C24_GradedAsServed ==
  /\ \A a \in served, b \in served : a[1] = b[1] => a[2] = b[2]
  /\ (lastQuiz.op = "submit" /\ lastQuiz.status = 200) =>
       /\ \A a \in served : a[1] = lastQuiz.quizId => a[2] = lastQuiz.questions
       /\ lastQuiz.score =
            Cardinality({i \in 1 .. Len(lastQuiz.questions) :
                           /\ i <= Len(lastQuiz.answers)
                           /\ lastQuiz.answers[i] = lastQuiz.questions[i]})

\* C25: a user created by POST /api/auth/register has the same plan in the
\* users table and in the subscriptions table, in every state reached by
\* PlanService operations and Stripe webhooks in any order
C25_PlansAgree ==
  \A userId \in DOMAIN users :
    /\ HasSubscription(userId)
    /\ users[userId].plan = subscriptions[userId].plan

\* a paid subscription bought by checkout was deleted by Stripe, and both
\* tables show the free plan again
C25_Witness ==
  /\ lastPlan.op = "handleSubscriptionDeleted"
  /\ lastPlan.changes = 1
  /\ \E userId \in DOMAIN users :
       /\ subscriptions[userId].stripe_subscription_id = StripeIdOf(userId)
       /\ subscriptions[userId].status = "cancelled"
       /\ users[userId].plan = "free"
       /\ subscriptions[userId].plan = "free"

PaidPlans == {"premium", "education"}

\* C26: a cancelled or expired subscription has the free plan, and a
\* subscription with a paid plan is active or past due, whatever the order of
\* PlanService operations and Stripe webhook events
C26_StatusMatchesPlan ==
  \A userId \in DOMAIN subscriptions :
    /\ subscriptions[userId].status \in {"cancelled", "expired"}
         => subscriptions[userId].plan = "free"
    /\ subscriptions[userId].plan \in PaidPlans
         => subscriptions[userId].status \in {"active", "past_due"}

\* the recordReview call of this step was made for this pair
ReviewedNow(key) == CallsOf(key[1], key[2])' = CallsOf(key[1], key[2]) + 1

\* C27: words_learned of every registered user equals the number of distinct
\* words the user has in word_history; a review adds exactly 1 to it when it
\* is the user's first of the word and nothing otherwise, and changes no
\* counter and no row of another user
C27_WordsLearnedCounted ==
  [][\A key \in Users \X Words :
       ReviewedNow(key) =>
         /\ \A u \in DOMAIN users' :
              user_progress'[u].words_learned = Cardinality(WordsOf(u))'
         /\ user_progress'[key[1]].words_learned =
              user_progress[key[1]].words_learned
              + (IF HasRow(key[1], key[2]) THEN 0 ELSE 1)
         /\ \A u \in DOMAIN user_progress \ {key[1]} :
              user_progress'[u] = user_progress[u]
         /\ \A other \in DOMAIN word_history \ {key} :
              word_history'[other] = word_history[other]
         /\ DOMAIN word_history' = DOMAIN word_history \cup {key}]_vars

\* a user has learned two words, one of them reviewed twice, and another
\* user has learned one
C27_Witness ==
  \E u \in DOMAIN users, v \in DOMAIN users :
    /\ u # v
    /\ user_progress[u].words_learned = 2
    /\ Cardinality(WordsOf(u)) = 2
    /\ \E word \in WordsOf(u) : CallsOf(u, word) = 2
    /\ user_progress[v].words_learned = 1
    /\ Cardinality(WordsOf(v)) = 1

\* C28: a pair has at most one word_history row (it is the row of its key),
\* the row's correct_count + incorrect_count equals the number of
\* recordReview calls made for the pair, and neither counter ever decreases
C28_CountsAreCalls ==
  [][/\ \A key \in DOMAIN word_history' :
          word_history'[key].correct_count + word_history'[key].incorrect_count
            = CallsOf(key[1], key[2])'
     /\ \A key \in DOMAIN reviewCalls' : key \in DOMAIN word_history'
     /\ \A key \in DOMAIN word_history :
          /\ key \in DOMAIN word_history'
          /\ word_history'[key].correct_count >= word_history[key].correct_count
          /\ word_history'[key].incorrect_count
               >= word_history[key].incorrect_count]_vars

\* a pair reviewed three times, rightly and wrongly
C28_Witness ==
  \E key \in DOMAIN word_history :
    /\ CallsOf(key[1], key[2]) = 3
    /\ word_history[key].correct_count >= 1
    /\ word_history[key].incorrect_count >= 1

StreakUpdated == lastStreak.op = "updateStreak" /\ lastStreak.registered

\* C29: for a registered user updateStreak returns and stores a streak >= 1:
\* 1 on the first activity, the stored streak on a further call the same
\* day, the stored streak + 1 a day after the last activity, 1 after a gap
\* of two or more days, also after markComplete has set last_active_date
C29_StreakAtLeastOne ==
  StreakUpdated =>
    LET before == lastStreak.before
        gap == lastStreak.today - before.last_active_date
    IN /\ lastStreak.returned >= 1
       /\ lastStreak.today = now =>
            ActivityOf(lastStreak.userId).streak >= 1
       /\ before.last_active_date = NoDate => lastStreak.returned = 1
       /\ (before.last_active_date # NoDate /\ gap = 0) =>
            lastStreak.returned = before.streak
       /\ (before.last_active_date # NoDate /\ gap = 1) =>
            lastStreak.returned = before.streak + 1
       /\ (before.last_active_date # NoDate /\ gap >= 2) =>
            lastStreak.returned = 1

\* the words getWordsToReview returns for some limit and some order of ties
Returned(userId) ==
  {r[i].word : <<r, i>> \in
     {<<q, j>> \in
        {WordsToReview(userId, limit, tieOrder) :
           limit \in 0 .. MaxLimit, tieOrder \in TieOrders} \X (1 .. MaxLimit) :
        j \in DOMAIN q}}

====
